---- MODULE Spec2Model ----
(***************************************************************************)
(* Native control layer of the t86 debugger (src/t86/debugger/Native.h):   *)
(* software breakpoints, watchpoints, registers, text reads and writes,    *)
(* single stepping, continue and the mapping of stop reasons to debug      *)
(* events, run against a model of the debuggee process; and the source     *)
(* layer on top of it (src/t86/debugger/Source): line mapping, source      *)
(* breakpoints and stepping, variable scoping, type reconstruction and the *)
(* location interpreter.                                                   *)
(***************************************************************************)
EXTENDS Integers, Sequences, FiniteSets, TLC

VARIABLES
    text,                   \* the debuggee's text, one instruction word per address
    regs,                   \* the debuggee's integer registers (IP, R0, R1)
    pstate,                 \* "stopped", "resumed" or "stepping": what the process was last
                            \* told; "aborted" once an assertion of the debugger failed
    reason,                 \* the process's last stop reason
    software_breakpoints,   \* Native::software_breakpoints: address -> [data, enabled]
    cached_event,           \* Native::cached_event
    wait_ok,                \* every process->Wait() so far was entered with all enabled traps installed
    ref_text,               \* the text as the program should see it: changed only by Native.WriteText
    scn,                    \* the operations on one breakpoint since its SetBreakpoint
    visit,                  \* what the debuggee executed since a ContinueExecution at a breakpoint
    last,                   \* the last Native operation, its arguments and its outcome
    watchpoints,            \* Native::watchpoints: address -> [type, hw_reg]
    dbg_regs,               \* the debuggee's debug registers
    fregs,                  \* the debuggee's float registers
    line_mapping,           \* Source::line_mapping: optional map line -> address
    top_die,                \* Source::top_die: optional DIE tree
    cached_types,           \* Source::cached_types: die id -> Type
    interp,                 \* the ExpressionInterpreter of the running invocation
    reply,                  \* the last operation of the source layer and its result
    parser                  \* the assembly Parser: its tokens, curtok, program and data

nvars == <<text, regs, pstate, reason, software_breakpoints, cached_event,
           wait_ok, ref_text, scn, visit, last, watchpoints, dbg_regs, fregs>>

svars == <<line_mapping, top_die, cached_types, interp, reply>>

pvars == <<parser>>

vars == <<nvars, svars, pvars>>

-----------------------------------------------------------------------------
(* Bounds of the model.                                                    *)

TextSize == 3       \* instruction slots of the debuggee (process->TextSize())
AddrBits == 3       \* width of address arithmetic, standing for the 64 bits of uint64_t
MaxWrite == 2       \* longest word sequence handed to WriteText, longest ReadText
MaxBps == 2         \* breakpoints the front-end keeps in the table at a time
DebugRegistersCount == 2    \* Arch::DebugRegistersCount(), debug registers that hold an address
MaxData == 2        \* greatest data address the front-end watches
MaxValue == 2       \* greatest value the front-end writes to a register
MaxChildren == 2    \* children of a function or scope DIE
MaxLine == 2        \* greatest source line of the line mapping
MaxTypes == 2       \* type DIEs of the compile unit, with the ids 1 .. MaxTypes
MaxMembers == 2     \* members of a structured type
MaxProgram == 3     \* instructions of a location program
MaxLines == 3       \* instructions of a text section written with or without ';'
MaxSections == 3    \* sections of an assembly text
MaxFunctions == 2   \* top-level DIEs of the compile unit in the function lookup

Modulus == 2 ^ AddrBits

Words == {"MOV R0, 1", "MOV R1, 2", "HALT", "BKPT", "MOV [0], 42", "MOV [1], 42"}

\* Addresses a front-end passes: the text, and the top of the address space
\* (out of the text, and where address + amount wraps around).
Addrs == (0 .. (TextSize - 1)) \cup {Modulus - 1}

NoAddr == 0 - 1
NoErr == "ok"
DebuggerError == "DebuggerError"

NoEvent == [type |-> "None", address |-> NoAddr]
BreakpointHit(a) == [type |-> "BreakpointHit", address |-> a]
Singlestep == [type |-> "Singlestep", address |-> NoAddr]
ExecutionEnd == [type |-> "ExecutionEnd", address |-> NoAddr]
ExecutionBegin == [type |-> "ExecutionBegin", address |-> NoAddr]
WatchpointTrigger(a) == [type |-> "WatchpointTrigger", address |-> a]
\* assert(it != watchpoints.end()) failed: the debugger aborts, no event.
Aborted == [type |-> "Aborted", address |-> NoAddr]
AssertionFailure == "AssertionFailure"
\* std::out_of_range, thrown by regs.at("IP") on a map without IP.
OutOfRange == "OutOfRange"

-----------------------------------------------------------------------------
(* The debuggee process behind the Process interface.                      *)

InText(a) == a \in 0 .. (TextSize - 1)

\* The debug registers: an address each, the set of the activated ones, and
\* the one that caused the last HardwareBreak.
NoReg == 0 - 1
DebugRegs == 0 .. (DebugRegistersCount - 1)
NoDebugRegisters == [addr |-> [i \in DebugRegs |-> 0], active |-> {}, hit |-> NoReg]
ArchSetDebugRegister(idx, address, d) == [d EXCEPT !.addr[idx] = address]
ArchActivateDebugRegister(idx, d) == [d EXCEPT !.active = @ \cup {idx}]
ArchDeactivateDebugRegister(idx, d) == [d EXCEPT !.active = @ \ {idx}]
ArchGetResponsibleRegister(d) == d.hit
SupportsHardwareWatchpoints == TRUE

\* Arch::SupportHardwareLevelSingleStep() of the T86 target.
SupportHardwareLevelSingleStep == TRUE

\* The data address an instruction writes to, NoAddr if it writes to none.
WrittenAddress(w) ==
    CASE w = "MOV [0], 42" -> 0
      [] w = "MOV [1], 42" -> 1
      [] OTHER -> NoAddr

\* The activated debug registers that watch the address.
Watching(d, a) == {i \in d.active : d.addr[i] = a}

\* One instruction of the CPU.  A fetch outside the text ends the execution.
Execute(p) ==
    IF ~InText(p.regs.IP) THEN [p EXCEPT !.reason = "ExecutionEnd"]
    ELSE LET w == p.text[p.regs.IP + 1]
             q == [p EXCEPT !.xlog = Append(@, [a |-> p.regs.IP, w |-> w])]
         IN  CASE w = "BKPT" ->
                    [q EXCEPT !.regs.IP = @ + 1, !.reason = "SoftwareBreakpointHit"]
               [] w = "HALT" ->
                    [q EXCEPT !.reason = "ExecutionEnd"]
               [] w = "MOV R0, 1" ->
                    [q EXCEPT !.regs.IP = @ + 1, !.regs.R0 = 1, !.reason = "Singlestep"]
               [] w = "MOV R1, 2" ->
                    [q EXCEPT !.regs.IP = @ + 1, !.regs.R1 = 2, !.reason = "Singlestep"]
               [] WrittenAddress(w) # NoAddr ->
                    LET hits == Watching(p.dbg, WrittenAddress(w))
                    IN  IF hits = {}
                        THEN [q EXCEPT !.regs.IP = @ + 1, !.reason = "Singlestep"]
                        ELSE [q EXCEPT !.regs.IP = @ + 1, !.reason = "HardwareBreak",
                                       !.dbg.hit = CHOOSE i \in hits :
                                                      \A j \in hits : i <= j]

\* The CPU running freely: until a trap or the end of the execution.
RECURSIVE Run(_)
Run(p) ==
    LET q == Execute(p)
    IN  IF q.reason = "Singlestep" THEN Run(q) ELSE q

Call(s, name) == [s EXCEPT !.calls = Append(@, name)]

ProcessTextSize == TextSize

\* process->ReadText(address, 1).at(0); fails out of range.
ProcessReadWord(s, address) ==
    IF InText(address) THEN Call(s, "ReadText")
    ELSE [Call(s, "ReadText") EXCEPT !.err = DebuggerError]

\* process->WriteText(address, words); fails out of range.  s.drop: in this
\* operation the process does not take a trap opcode (the write has no effect
\* on the text), the case the read-back of CreateSoftwareBreakpoint is for.
ProcessWriteText(s, address, words) ==
    IF address + Len(words) > TextSize
    THEN [Call(s, "WriteText") EXCEPT !.err = DebuggerError]
    ELSE IF s.drop /\ words = <<"BKPT">> THEN Call(s, "WriteText")
    ELSE [Call(s, "WriteText") EXCEPT
            !.text = [i \in 1 .. TextSize |->
                        IF i - 1 >= address /\ i - 1 < address + Len(words)
                        THEN words[i - address] ELSE @[i]]]

ProcessSinglestep(s) == [Call(s, "Singlestep") EXCEPT !.pstate = "stepping"]

ProcessResumeExecution(s) == [Call(s, "ResumeExecution") EXCEPT !.pstate = "resumed"]

\* process->Wait(): the process runs as it was told and stops.
ProcessWait(s) ==
    LET p == [text |-> s.text, regs |-> s.regs, reason |-> s.reason, xlog |-> s.xlog,
              dbg |-> s.dbg]
        Stop(q) == [Call(s, "Wait") EXCEPT !.regs = q.regs, !.reason = q.reason,
                                           !.xlog = q.xlog, !.dbg = q.dbg,
                                           !.pstate = "stopped"]
    IN  Stop(IF s.pstate = "stepping" THEN Execute(p) ELSE Run(p))

-----------------------------------------------------------------------------
(* Native.                                                                 *)

Throw(s) == [s EXCEPT !.err = DebuggerError]

GetSoftwareBreakpointOpcode == "BKPT"

TrapsInstalled(txt, bps) ==
    \A a \in DOMAIN bps : bps[a].enabled => txt[a + 1] = GetSoftwareBreakpointOpcode

ProcessFetchRegisters(s) == [Call(s, "FetchRegisters") EXCEPT !.ret = s.regs]

ProcessSetRegisters(s, m) == [Call(s, "SetRegisters") EXCEPT !.regs = m]

ProcessFetchFloatRegisters(s) == [Call(s, "FetchFloatRegisters") EXCEPT !.ret = s.fregs]

ProcessSetFloatRegisters(s, m) == [Call(s, "SetFloatRegisters") EXCEPT !.fregs = m]

\* GetRegisters, SetRegisters, GetFloatRegisters, SetFloatRegisters: the whole
\* map, handed to the process as it is given.
GetRegisters(s) == ProcessFetchRegisters(s)
SetRegisters(s, m) == ProcessSetRegisters(s, m)
GetFloatRegisters(s) == ProcessFetchFloatRegisters(s)
SetFloatRegisters(s, m) == ProcessSetFloatRegisters(s, m)

GetRegister(s, name) ==
    LET f == ProcessFetchRegisters(s)
    IN  IF name \notin DOMAIN f.ret THEN Throw([f EXCEPT !.ret = <<>>])
        ELSE [f EXCEPT !.ret = f.ret[name]]

\* SetRegister that writes the map back without validating the name.
SetRegister_Unchecked(s, name, value) ==
    LET f == ProcessFetchRegisters(s)
        m == [r \in DOMAIN f.ret |-> IF r = name THEN value ELSE f.ret[r]]
    IN  ProcessSetRegisters([f EXCEPT !.ret = <<>>], m)

SetRegister(s, name, value) ==
    LET f == ProcessFetchRegisters(s)
    IN  IF name \notin DOMAIN f.ret THEN Throw([f EXCEPT !.ret = <<>>])
        ELSE LET m == [r \in DOMAIN f.ret |-> IF r = name THEN value ELSE f.ret[r]]
             IN  ProcessSetRegisters([f EXCEPT !.ret = <<>>], m)

GetFloatRegister(s, name) ==
    LET f == ProcessFetchFloatRegisters(s)
    IN  IF name \notin DOMAIN f.ret THEN Throw([f EXCEPT !.ret = <<>>])
        ELSE [f EXCEPT !.ret = f.ret[name]]

SetFloatRegister(s, name, value) ==
    LET f == ProcessFetchFloatRegisters(s)
    IN  IF name \notin DOMAIN f.ret THEN Throw([f EXCEPT !.ret = <<>>])
        ELSE LET m == [r \in DOMAIN f.ret |-> IF r = name THEN value ELSE f.ret[r]]
             IN  ProcessSetFloatRegisters([f EXCEPT !.ret = <<>>], m)

\* An operation goes on with the state another left, its return value taken.
Taken(g) == [g EXCEPT !.ret = <<>>]

\* uint64_t GetIP(): GetRegister("IP"), converted to an unsigned address.
GetIP(s) ==
    LET Value(g) == IF g.err # NoErr THEN g ELSE [g EXCEPT !.ret = g.ret % Modulus]
    IN  Value(GetRegister(s, "IP"))

CreateSoftwareBreakpoint(s, address) ==
    LET r1 == ProcessReadWord(s, address)
    IN  IF r1.err # NoErr THEN r1
        ELSE LET backup == r1.text[address + 1]
                 r2 == ProcessWriteText(r1, address, <<GetSoftwareBreakpointOpcode>>)
                 r3 == ProcessReadWord(r2, address)
                 new_opcode == r3.text[address + 1]
             IN  IF new_opcode # GetSoftwareBreakpointOpcode THEN Throw(r3)
                 ELSE [r3 EXCEPT !.bp = [data |-> backup, enabled |-> TRUE]]

SetBreakpoint(s, address) ==
    IF address \in DOMAIN s.bps THEN Throw(s)
    ELSE LET c == CreateSoftwareBreakpoint(s, address)
         IN  IF c.err # NoErr THEN c
             ELSE [c EXCEPT !.bps = [a \in DOMAIN c.bps \cup {address} |->
                                        IF a = address THEN c.bp ELSE c.bps[a]]]

\* EnableSoftwareBreakpoint that marks the entry enabled before the trap is
\* written and verified.
EnableSoftwareBreakpoint_MarkFirst(s, address) ==
    IF address \notin DOMAIN s.bps THEN Throw(s)
    ELSE IF ~s.bps[address].enabled
         THEN LET m == [s EXCEPT !.bps[address].enabled = TRUE]
                  c == CreateSoftwareBreakpoint(m, address)
              IN  IF c.err # NoErr THEN c
                  ELSE [c EXCEPT !.bps[address] = c.bp]
         ELSE s

EnableSoftwareBreakpoint(s, address) ==
    IF address \notin DOMAIN s.bps THEN Throw(s)
    ELSE IF ~s.bps[address].enabled
         THEN LET c == CreateSoftwareBreakpoint(s, address)
              IN  IF c.err # NoErr THEN c
                  ELSE [c EXCEPT !.bps[address] = c.bp]
         ELSE s

DisableSoftwareBreakpoint(s, address) ==
    IF address \notin DOMAIN s.bps THEN Throw(s)
    ELSE IF s.bps[address].enabled
         THEN LET Mark(w) == IF w.err # NoErr THEN w
                             ELSE [w EXCEPT !.bps[address].enabled = FALSE]
              IN  Mark(ProcessWriteText(s, address, <<s.bps[address].data>>))
         ELSE s

\* UnsetBreakpoint that erases the entry without restoring the opcode.
UnsetBreakpoint_EraseOnly(s, address) ==
    IF address \notin DOMAIN s.bps THEN Throw(s)
    ELSE [s EXCEPT !.bps = [a \in DOMAIN s.bps \ {address} |-> s.bps[a]]]

UnsetBreakpoint(s, address) ==
    LET d == DisableSoftwareBreakpoint(s, address)
    IN  IF d.err # NoErr THEN d
        ELSE [d EXCEPT !.bps = [a \in DOMAIN d.bps \ {address} |-> d.bps[a]]]

\* The words of s.text at address .. address+amount-1 as process->ReadText
\* returns them; fails out of range.
ProcessReadText(s, address, amount) ==
    IF address + amount > TextSize
    THEN [Call(s, "ReadText") EXCEPT !.err = DebuggerError]
    ELSE [Call(s, "ReadText") EXCEPT !.ret = [i \in 1 .. amount |-> s.text[address + i]]]

\* ReadText that returns the process's words as they are.
ReadText_NoSubstitution(s, address, amount) ==
    IF (address + amount) % Modulus > ProcessTextSize THEN Throw(s)
    ELSE ProcessReadText(s, address, amount)

ReadText(s, address, amount) ==
    LET text_size == ProcessTextSize
    IN  IF (address + amount) % Modulus > text_size THEN Throw(s)
        ELSE LET r == ProcessReadText(s, address, amount)
             IN  IF r.err # NoErr THEN r
                 ELSE [r EXCEPT !.ret =
                         [i \in 1 .. Len(r.ret) |->
                            IF ((i - 1 + address) % Modulus) \in DOMAIN r.bps
                            THEN r.bps[(i - 1 + address) % Modulus].data
                            ELSE r.ret[i]]]

\* WriteText that hands the words to the process as they are.
WriteText_Raw(s, address, words) ==
    IF (address + Len(words)) % Modulus > ProcessTextSize THEN Throw(s)
    ELSE ProcessWriteText(s, address, words)

WriteText(s, address, words) ==
    LET text_size == ProcessTextSize
        n == Len(words)
        Hit(a) == {i \in 1 .. n : (i - 1 + address) % Modulus = a}
    IN  IF (address + n) % Modulus > text_size THEN Throw(s)
        ELSE LET saved == [a \in DOMAIN s.bps |->
                             IF Hit(a) # {}
                             THEN [s.bps[a] EXCEPT !.data = words[CHOOSE i \in Hit(a) : TRUE]]
                             ELSE s.bps[a]]
                 out == [i \in 1 .. n |->
                           IF ((i - 1 + address) % Modulus) \in DOMAIN s.bps
                           THEN GetSoftwareBreakpointOpcode ELSE words[i]]
             IN  ProcessWriteText([s EXCEPT !.bps = saved], address, out)

MapReasonToEvent(s, r) ==
    CASE r = "SoftwareBreakpointHit" ->
            LET Hit(g) == IF g.err # NoErr THEN g
                          ELSE [Taken(g) EXCEPT !.ev = BreakpointHit((g.ret - 1) % Modulus)]
            IN  Hit(GetIP(s))
      [] r = "HardwareBreak" ->
            LET Owner(f) ==
                    LET idx == ArchGetResponsibleRegister(f.dbg)
                        m == {a \in DOMAIN f.watchpoints : f.watchpoints[a].hw_reg = idx}
                    IN  IF m = {}
                        THEN IF f.past_end.assert THEN [f EXCEPT !.ev = Aborted]
                             ELSE [f EXCEPT !.ev = WatchpointTrigger(f.past_end.first)]
                        ELSE [f EXCEPT !.ev =
                                WatchpointTrigger(CHOOSE a \in m : \A b \in m : a <= b)]
            IN  Owner(Call(s, "FetchDebugRegisters"))
      [] r = "Singlestep" -> [s EXCEPT !.ev = Singlestep]
      [] r = "ExecutionEnd" -> [s EXCEPT !.ev = ExecutionEnd]
      [] r = "ExecutionBegin" -> [s EXCEPT !.ev = ExecutionBegin]

\* WaitForDebugEvent that returns the cached event and leaves it in the slot.
WaitForDebugEvent_KeepCached(s) ==
    LET Mapped(w) == MapReasonToEvent(w, w.reason)
        Rewind(f) ==
            IF "IP" \notin DOMAIN f.ret THEN [Taken(f) EXCEPT !.err = OutOfRange]
            ELSE SetRegisters(Taken(f), [f.ret EXCEPT !.IP = @ - 1])
        Deliver(r) ==
            IF r.err # NoErr THEN r
            ELSE IF r.ev.type = "BreakpointHit" THEN Rewind(GetRegisters(r))
            ELSE IF r.ev = Aborted
                 THEN [r EXCEPT !.err = AssertionFailure, !.pstate = "aborted"]
                 ELSE r
    IN  Deliver(IF s.cached # NoEvent
                THEN [s EXCEPT !.ev = s.cached]
                ELSE Mapped(ProcessWait([s EXCEPT !.wait_ok =
                                            @ /\ TrapsInstalled(s.text, s.bps)])))

WaitForDebugEvent(s) ==
    LET Mapped(w) == MapReasonToEvent(w, w.reason)
        Rewind(f) ==
            IF "IP" \notin DOMAIN f.ret THEN [Taken(f) EXCEPT !.err = OutOfRange]
            ELSE SetRegisters(Taken(f), [f.ret EXCEPT !.IP = @ - 1])
        Deliver(r) ==
            IF r.err # NoErr THEN r
            ELSE IF r.ev.type = "BreakpointHit" THEN Rewind(GetRegisters(r))
            ELSE IF r.ev = Aborted
                 THEN [r EXCEPT !.err = AssertionFailure, !.pstate = "aborted"]
                 ELSE r
    IN  Deliver(IF s.cached # NoEvent
                THEN [s EXCEPT !.ev = s.cached, !.cached = NoEvent]
                ELSE Mapped(ProcessWait([s EXCEPT !.wait_ok =
                                            @ /\ TrapsInstalled(s.text, s.bps)])))

DoRawSingleStep(s) == WaitForDebugEvent(ProcessSinglestep(s))

RECURSIVE PerformSingleStep(_)
RECURSIVE StepOverBreakpoint(_, _)

PerformSingleStep(s) ==
    IF ~SupportHardwareLevelSingleStep THEN Throw(s)
    ELSE LET At(g) ==
                 IF g.err # NoErr THEN g
                 ELSE IF g.ret \in DOMAIN g.bps /\ g.bps[g.ret].enabled
                      THEN StepOverBreakpoint(Taken(g), g.ret)
                      ELSE DoRawSingleStep(Taken(g))
         IN  At(GetIP(s))

StepOverBreakpoint(s, ip) ==
    LET Enable(e) == IF e.err # NoErr THEN e ELSE EnableSoftwareBreakpoint(e, ip)
        Step(d) == IF d.err # NoErr THEN d ELSE Enable(PerformSingleStep(d))
    IN  Step(DisableSoftwareBreakpoint(s, ip))

\* ContinueExecution that caches the event and resumes all the same.
ContinueExecution_AlwaysResume(s) ==
    LET Resume(e) ==
            IF e.err # NoErr THEN e
            ELSE IF e.ev.type # "Singlestep"
                 THEN ProcessResumeExecution([e EXCEPT !.cached = e.ev])
                 ELSE ProcessResumeExecution(e)
        At(g) ==
            IF g.err # NoErr THEN g
            ELSE IF g.ret \notin DOMAIN g.bps \/ ~g.bps[g.ret].enabled
                 THEN ProcessResumeExecution(Taken(g))
                 ELSE Resume(StepOverBreakpoint(Taken(g), g.ret))
    IN  At(GetIP(s))

ContinueExecution(s) ==
    LET Resume(e) ==
            IF e.err # NoErr THEN e
            ELSE IF e.ev.type # "Singlestep"
                 THEN [e EXCEPT !.cached = e.ev]
                 ELSE ProcessResumeExecution(e)
        At(g) ==
            IF g.err # NoErr THEN g
            ELSE IF g.ret \notin DOMAIN g.bps \/ ~g.bps[g.ret].enabled
                 THEN ProcessResumeExecution(Taken(g))
                 ELSE Resume(StepOverBreakpoint(Taken(g), g.ret))
    IN  At(GetIP(s))

\* GetFreeDebugRegister that hands out the first debug register whatever the
\* table holds.
GetFreeDebugRegister_First(wps) == 0

\* GetFreeDebugRegister that walks the registers downwards.
GetFreeDebugRegister_Highest(wps) ==
    LET free == {i \in DebugRegs : \A a \in DOMAIN wps : wps[a].hw_reg # i}
    IN  IF free = {} THEN NoReg ELSE CHOOSE i \in free : \A j \in free : i >= j

GetFreeDebugRegister(wps) ==
    LET free == {i \in DebugRegs : \A a \in DOMAIN wps : wps[a].hw_reg # i}
    IN  IF free = {} THEN NoReg ELSE CHOOSE i \in free : \A j \in free : i <= j

\* SetWatchpointWrite without the check for a watchpoint on the same address.
SetWatchpointWrite_NoDuplicateCheck(s, address) ==
    LET idx == GetFreeDebugRegister(s.watchpoints)
    IN  IF idx = NoReg THEN Throw(s)
        ELSE LET f == Call(s, "FetchDebugRegisters")
                 d == ArchActivateDebugRegister(idx, ArchSetDebugRegister(idx, address, f.dbg))
                 w == [Call(f, "SetDebugRegisters") EXCEPT !.dbg = d]
             IN  [w EXCEPT !.watchpoints =
                     [a \in DOMAIN w.watchpoints \cup {address} |->
                        IF a = address THEN [type |-> "Write", hw_reg |-> idx]
                        ELSE w.watchpoints[a]]]

SetWatchpointWrite(s, address) ==
    IF ~SupportsHardwareWatchpoints THEN Throw(s)
    ELSE IF address \in DOMAIN s.watchpoints THEN Throw(s)
    ELSE LET idx == GetFreeDebugRegister(s.watchpoints)
         IN  IF idx = NoReg THEN Throw(s)
             ELSE LET f == Call(s, "FetchDebugRegisters")
                      d == ArchActivateDebugRegister(idx,
                               ArchSetDebugRegister(idx, address, f.dbg))
                      w == [Call(f, "SetDebugRegisters") EXCEPT !.dbg = d]
                  IN  [w EXCEPT !.watchpoints =
                          [a \in DOMAIN w.watchpoints \cup {address} |->
                             IF a = address THEN [type |-> "Write", hw_reg |-> idx]
                             ELSE w.watchpoints[a]]]

\* The debug registers are fetched and the register deactivated in the
\* fetched copy; the copy is not written back to the process.
RemoveWatchpoint(s, address) ==
    IF address \notin DOMAIN s.watchpoints THEN Throw(s)
    ELSE LET f == Call(s, "FetchDebugRegisters")
             local == ArchDeactivateDebugRegister(f.watchpoints[address].hw_reg, f.dbg)
         IN  [f EXCEPT !.watchpoints = [a \in DOMAIN f.watchpoints \ {address} |->
                                            f.watchpoints[a]]]

-----------------------------------------------------------------------------
(* Source: the debugging information and the operations on it.             *)

NoLineMapping == [loaded |-> FALSE, map |-> <<>>]
NoInterpreter == [exprs |-> <<>>, pc |-> 0, s |-> <<>>, status |-> "none", err |-> NoErr]
NoReply == [op |-> "none"]

\* A DIE: its tag, its attributes (name "" and addresses NoAddr when the
\* attribute is missing) and its children in order.
Die(tag, name, begin_addr, end_addr, children) ==
    [tag |-> tag, name |-> name, begin_addr |-> begin_addr, end_addr |-> end_addr,
     children |-> children]
NoDie == Die("none", "", NoAddr, NoAddr, <<>>)

\* result.insert_or_assign(name, &die); a DIE is identified by its path from
\* the top DIE.
InsertOrAssign(result, name, die) ==
    [n \in DOMAIN result \cup {name} |-> IF n = name THEN die ELSE result[n]]

RECURSIVE FindVariables(_, _, _, _)
RECURSIVE FindVariablesIn(_, _, _, _, _)

FindVariables(address, die, path, result) ==
    IF die.tag = "variable" /\ die.name # ""
    THEN InsertOrAssign(result, die.name, path)
    ELSE IF /\ die.tag \in {"scope", "function"}
            /\ \/ die.begin_addr = NoAddr
               \/ die.end_addr = NoAddr
               \/ ~(die.begin_addr <= address /\ address < die.end_addr)
         THEN result
         ELSE FindVariablesIn(address, die, path, 1, result)

\* for (const auto& d: die) FindVariables(address, d, result), from child i on.
FindVariablesIn(address, die, path, i, result) ==
    IF i > Len(die.children) THEN result
    ELSE FindVariablesIn(address, die, path, i + 1,
                         FindVariables(address, die.children[i], Append(path, i), result))

\* The line mapping: line -> address, and the lines of an address.
NoLine == 0 - 1
LineMappingGetAddress(lm, line) == IF line \in DOMAIN lm.map THEN lm.map[line] ELSE NoAddr
LineMappingGetLines(lm, addr) == {l \in DOMAIN lm.map : lm.map[l] = addr}

\* AddrToLine that returns the first line mapped to the address.
AddrToLine_First(lm, addr) ==
    IF ~lm.loaded THEN NoLine
    ELSE LET lines == LineMappingGetLines(lm, addr)
         IN  IF lines = {} THEN NoLine
             ELSE CHOOSE min \in lines : \A l \in lines : min <= l

AddrToLine(lm, addr) ==
    IF ~lm.loaded THEN NoLine
    ELSE LET lines == LineMappingGetLines(lm, addr)
         IN  IF lines = {} THEN NoLine
             ELSE CHOOSE max \in lines : \A l \in lines : l <= max

LineToAddr(lm, line) ==
    IF ~lm.loaded THEN NoAddr ELSE LineMappingGetAddress(lm, line)

\* UnwrapOptional(line_mapping, ...) and UnwrapOptional(mapping.GetAddress(line), ...):
\* the address of the line, NoAddr when either is missing.
ResolveLine(lm, line) ==
    IF ~lm.loaded THEN NoAddr ELSE LineMappingGetAddress(lm, line)

\* SetSourceSoftwareBreakpoint that passes the line itself as the address.
SetSourceSoftwareBreakpoint_LineAsAddress(s, lm, line) ==
    IF ResolveLine(lm, line) = NoAddr THEN Throw(s)
    ELSE LET r == SetBreakpoint(s, line)
         IN  IF r.err # NoErr THEN r ELSE [r EXCEPT !.ret = line]

SetSourceSoftwareBreakpoint(s, lm, line) ==
    LET addr == ResolveLine(lm, line)
    IN  IF addr = NoAddr THEN Throw(s)
        ELSE LET r == SetBreakpoint(s, addr)
             IN  IF r.err # NoErr THEN r ELSE [r EXCEPT !.ret = addr]

UnsetSourceSoftwareBreakpoint(s, lm, line) ==
    LET addr == ResolveLine(lm, line)
    IN  IF addr = NoAddr THEN Throw(s)
        ELSE LET r == UnsetBreakpoint(s, addr)
             IN  IF r.err # NoErr THEN r ELSE [r EXCEPT !.ret = addr]

EnableSourceSoftwareBreakpoint(s, lm, line) ==
    LET addr == ResolveLine(lm, line)
    IN  IF addr = NoAddr THEN Throw(s)
        ELSE LET r == EnableSoftwareBreakpoint(s, addr)
             IN  IF r.err # NoErr THEN r ELSE [r EXCEPT !.ret = addr]

DisableSourceSoftwareBreakpoint(s, lm, line) ==
    LET addr == ResolveLine(lm, line)
    IN  IF addr = NoAddr THEN Throw(s)
        ELSE LET r == DisableSoftwareBreakpoint(s, addr)
             IN  IF r.err # NoErr THEN r ELSE [r EXCEPT !.ret = addr]

\* What StepIn sees of a step: the primitive it called, the event it got and
\* the IP after it.
Stepped(kind, e) ==
    [e EXCEPT !.steps = Append(@, [kind |-> kind, ev |-> e.ev,
                                   ip |-> IF "IP" \in DOMAIN e.regs
                                          THEN e.regs.IP % Modulus ELSE NoAddr])]

RECURSIVE StepInLoop(_, _)
StepInLoop(e, lm) ==
    IF e.ev # Singlestep THEN e
    ELSE LET Again(n) ==
                 IF n.err # NoErr THEN n
                 ELSE StepInLoop(Stepped("DoRawSingleStep", n), lm)
             At(g) ==
                 IF g.err # NoErr THEN g
                 ELSE IF AddrToLine(lm, g.ret) = NoLine
                      THEN Again(DoRawSingleStep(Taken(g)))
                      ELSE Taken(g)
         IN  At(GetIP(e))

\* StepIn whose first step is a raw single step as well.
StepIn_RawFirst(s, lm) ==
    LET First(e) ==
            IF e.err # NoErr THEN e ELSE StepInLoop(Stepped("PerformSingleStep", e), lm)
    IN  First(DoRawSingleStep(s))

StepIn(s, lm) ==
    LET First(e) ==
            IF e.err # NoErr THEN e ELSE StepInLoop(Stepped("PerformSingleStep", e), lm)
    IN  First(PerformSingleStep(s))

\* Native::PerformStepOver(skip_bp = true): one instruction of the current
\* function, stepping over the breakpoint at the IP unless told not to.  The
\* words of the text hold no call, so the step is a single step.
PerformStepOver(s, skip_bp) ==
    IF skip_bp THEN PerformSingleStep(s) ELSE DoRawSingleStep(s)

RECURSIVE StepOverLoop(_, _)
StepOverLoop(e, lm) ==
    IF e.ev # Singlestep THEN e
    ELSE LET Again(n) ==
                 IF n.err # NoErr THEN n
                 ELSE StepOverLoop(Stepped("PerformStepOver(false)", n), lm)
             At(g) ==
                 IF g.err # NoErr THEN g
                 ELSE IF AddrToLine(lm, g.ret) = NoLine
                      THEN Again(PerformStepOver(Taken(g), FALSE))
                      ELSE Taken(g)
         IN  At(GetIP(e))

StepOver(s, lm) ==
    LET First(e) ==
            IF e.err # NoErr THEN e ELSE StepOverLoop(Stepped("PerformStepOver", e), lm)
    IN  First(PerformStepOver(s, TRUE))

\* A type DIE: a DIE with the attributes id, size, type and members (NoId,
\* NoSize and [present |-> FALSE] when the attribute is missing).
NoId == 0 - 1
NoSize == 0 - 1
NoMembers == [present |-> FALSE, m |-> <<>>]
TypeDie(tag, id, name, size, type_id, members, children) ==
    [tag |-> tag, name |-> name, begin_addr |-> NoAddr, end_addr |-> NoAddr,
     children |-> children, id |-> id, size |-> size, type_id |-> type_id,
     members |-> members]

\* std::optional<Type>: nothing, or one of the three kinds of Type.
NoType == [kind |-> "none"]
PrimitiveType(type, size) == [kind |-> "PrimitiveType", type |-> type, size |-> size]
StructuredType(name, size, members) ==
    [kind |-> "StructuredType", name |-> name, size |-> size, members |-> members]
PointerType(type_idx, name, size) ==
    [kind |-> "PointerType", type_idx |-> type_idx, name |-> name, size |-> size]
StructuredMember(name, type, offset) == [name |-> name, type |-> type, offset |-> offset]

ToPrimitiveType(name) == IF name = "int" THEN "SIGNED" ELSE ""

\* FindDIEById: the first DIE with the id in a depth-first walk, NoDie if none.
RECURSIVE FindDIEById(_, _)
RECURSIVE FindDIEByIdIn(_, _, _)
FindDIEById(die, id) ==
    IF die.id # NoId /\ die.id = id THEN die
    ELSE FindDIEByIdIn(die, id, 1)
FindDIEByIdIn(die, id, i) ==
    IF i > Len(die.children) THEN NoDie
    ELSE LET found == FindDIEById(die.children[i], id)
         IN  IF found # NoDie THEN found ELSE FindDIEByIdIn(die, id, i + 1)

\* cached_types.emplace(id, type): an entry that exists is kept.
Emplace(cache, id, type) ==
    IF id \in DOMAIN cache THEN cache
    ELSE [k \in DOMAIN cache \cup {id} |-> IF k = id THEN type ELSE cache[k]]

\* The outcome of a call: the optional Type returned and the cache after it;
\* diverged when the recursion entered a structured type for the depth-th
\* time in a chain, which it does only if it never returns.
Returned(type, cache) == [type |-> type, cache |-> cache, diverged |-> FALSE]
Diverged(cache) == [type |-> NoType, cache |-> cache, diverged |-> TRUE]

RECURSIVE ReconstructTypeInformation(_, _, _, _)
RECURSIVE ReconstructMembers(_, _, _, _, _, _)

\* Members built without reconstructing their types.
ReconstructMembers_Unresolved(top, cache, m, i, done, depth) ==
    Returned([k \in 1 .. Len(m) |-> StructuredMember(m[k].name, NoType, m[k].offset)],
             cache)

\* std::ranges::transform over members->m, from member i on; done holds the
\* StructuredMembers built so far.
ReconstructMembers(top, cache, m, i, done, depth) ==
    IF i > Len(m) THEN Returned(done, cache)
    ELSE LET type_info == ReconstructTypeInformation(top, cache, m[i].type_id, depth)
         IN  IF type_info.diverged THEN type_info
             ELSE ReconstructMembers(top, type_info.cache, m, i + 1,
                     Append(done, StructuredMember(m[i].name, type_info.type, m[i].offset)),
                     depth)

ReconstructTypeInformation(top, cache, id, depth) ==
    IF id \in DOMAIN cache THEN Returned(cache[id], cache)
    ELSE LET type_die == FindDIEById(top, id)
         IN  CASE type_die = NoDie -> Returned(NoType, cache)
               [] type_die # NoDie /\ type_die.tag = "primitive_type" ->
                    IF type_die.name = "" THEN Returned(NoType, cache)
                    ELSE IF ToPrimitiveType(type_die.name) = "" THEN Returned(NoType, cache)
                    ELSE IF type_die.size = NoSize THEN Returned(NoType, cache)
                    ELSE Returned(PrimitiveType(ToPrimitiveType(type_die.name),
                                                type_die.size), cache)
               [] type_die # NoDie /\ type_die.tag = "structured_type" ->
                    IF type_die.name = "" THEN Returned(NoType, cache)
                    ELSE IF type_die.size = NoSize
                         THEN Returned(StructuredType(type_die.name, 0, <<>>), cache)
                    ELSE IF ~type_die.members.present
                         THEN Returned(StructuredType(type_die.name, type_die.size, <<>>),
                                       cache)
                    ELSE IF depth = 0 THEN Diverged(cache)
                    ELSE LET mv == ReconstructMembers(top, cache, type_die.members.m, 1,
                                                      <<>>, depth - 1)
                         IN  IF mv.diverged THEN mv
                             ELSE LET result == StructuredType(type_die.name, type_die.size,
                                                               mv.type)
                                  IN  Returned(result, Emplace(mv.cache, id, result))
               [] type_die # NoDie /\ type_die.tag = "pointer_type" ->
                    IF type_die.type_id = NoId THEN Returned(NoType, cache)
                    ELSE LET pointed_die == FindDIEById(top, type_die.type_id)
                         IN  IF type_die.size = NoSize \/ pointed_die = NoDie
                             THEN Returned(NoType, cache)
                             ELSE IF pointed_die.name = "" THEN Returned(NoType, cache)
                             ELSE LET ptr == PointerType(type_die.type_id, pointed_die.name,
                                                         type_die.size)
                                  IN  Returned(ptr, Emplace(cache, id, ptr))

\* The location interpreter.  Operands: an immediate, an address, a register.
InterpretError == "InterpretError"
Imm(v) == [kind |-> "imm", v |-> v]
Address(v) == [kind |-> "address", v |-> v]
Register(r) == [kind |-> "register", v |-> r]

\* The instructions of a location program; the argument of push_reg is the
\* number of the register R0, R1.
PushImm(n) == [op |-> "push_imm", arg |-> n]
PushReg(r) == [op |-> "push_reg", arg |-> r]
BaseOffset(n) == [op |-> "base_offset", arg |-> n]
Add == [op |-> "add", arg |-> 0]
Dereference == [op |-> "deref", arg |-> 0]

\* The word of the debuggee's data memory at an address.
ProcessReadMemory(address) == address + 1

Fail(i) == [i EXCEPT !.status = "failed", !.err = InterpretError]

\* AddOperands: the sum, NoOperand for an unsupported combination.
NoOperand == [kind |-> "none", v |-> 0]
AddOperands(o1, o2) ==
    CASE o1.kind = "imm" /\ o2.kind = "imm" -> Imm(o1.v + o2.v)
      [] o1.kind = "imm" /\ o2.kind = "address" -> Address(o1.v + o2.v)
      [] o1.kind = "address" /\ o2.kind = "imm" -> Address(o1.v + o2.v)
      [] OTHER -> NoOperand

Pop(s) == SubSeq(s, 1, Len(s) - 1)
Top(s) == s[Len(s)]

\* An interpreter that takes over the scratch stack of the one before.
ExpressionInterpreter_KeepStack(exprs, before) ==
    [exprs |-> exprs, pc |-> 1, s |-> before.s, status |-> "running", err |-> NoErr]

\* ExpressionInterpreter(exprs, native, frame_base_reg_name): a new scratch
\* stack.
ExpressionInterpreter(exprs, before) ==
    [exprs |-> exprs, pc |-> 1, s |-> <<>>, status |-> "running", err |-> NoErr]

\* One instruction of the program.
InterpretOne(i, frame_base) ==
    LET e == i.exprs[i.pc]
        next == [i EXCEPT !.pc = @ + 1]
    IN  CASE e.op = "push_imm" -> [next EXCEPT !.s = Append(@, Imm(e.arg))]
          [] e.op = "push_reg" -> [next EXCEPT !.s = Append(@, Register(e.arg))]
          [] e.op = "base_offset" -> [next EXCEPT !.s = Append(@, Address(frame_base + e.arg))]
          [] e.op = "add" ->
                IF Len(i.s) < 2 THEN Fail(i)
                ELSE LET o2 == Top(i.s)
                         o1 == Top(Pop(i.s))
                         sum == AddOperands(o1, o2)
                     IN  IF sum = NoOperand THEN Fail(i)
                         ELSE [next EXCEPT !.s = Append(Pop(Pop(@)), sum)]
          [] e.op = "deref" ->
                IF Len(i.s) < 1 THEN Fail(i)
                ELSE IF Top(i.s).kind # "address" THEN Fail(i)
                ELSE [next EXCEPT !.s = Append(Pop(@), Imm(ProcessReadMemory(Top(i.s).v)))]

\* The end of the program: the single operand left is the result.
InterpretEnd(i) ==
    IF Len(i.s) # 1 THEN Fail(i) ELSE [i EXCEPT !.status = "returned"]

GetActiveVariables(top, address) ==
    IF top # NoDie THEN FindVariables(address, top, <<>>, <<>>) ELSE <<>>

\* A variable DIE with a location_expr attribute: its location program, or
\* none when the attribute is missing.
NoLocationExpr == [present |-> FALSE, locs |-> <<>>]
LocationExpr(locs) == [present |-> TRUE, locs |-> locs]
VariableDie(name, location_expr) ==
    [tag |-> "variable", name |-> name, begin_addr |-> NoAddr, end_addr |-> NoAddr,
     children |-> <<>>, location_expr |-> location_expr]

\* The DIE a path from the top DIE leads to.
RECURSIVE DieAt(_, _)
DieAt(die, path) ==
    IF path = <<>> THEN die ELSE DieAt(die.children[Head(path)], Tail(path))

\* GetVariableDie: the active variable of the name, NoDie for nullptr.
GetVariableDie(top, address, name) ==
    LET active == GetActiveVariables(top, address)
    IN  IF name \in DOMAIN active THEN DieAt(top, active[name]) ELSE NoDie

\* ExpressionInterpreter::Interpret(exprs, native): the whole program.
RECURSIVE InterpretRun(_, _)
InterpretRun(i, frame_base) ==
    IF i.status # "running" THEN i
    ELSE IF i.pc > Len(i.exprs) THEN InterpretEnd(i)
    ELSE InterpretRun(InterpretOne(i, frame_base), frame_base)

Interpret(exprs, frame_base) == InterpretRun(ExpressionInterpreter(exprs, NoInterpreter), frame_base)

GetVariableLocation(s, top, name) ==
    IF top = NoDie THEN [s EXCEPT !.ret = <<>>]
    ELSE LET Found(t, var) ==
                 IF var = NoDie THEN t
                 ELSE IF \/ "location_expr" \notin DOMAIN var
                         \/ ~var.location_expr.present
                         \/ var.location_expr.locs = <<>>
                      THEN t
                      ELSE LET Loc(i) == IF i.status = "failed"
                                         THEN [t EXCEPT !.err = i.err]
                                         ELSE [t EXCEPT !.ret = <<Top(i.s)>>]
                           IN  Loc(Interpret(var.location_expr.locs, t.regs.BP))
             At(g) ==
                 IF g.err # NoErr THEN g
                 ELSE Found(Taken(g), GetVariableDie(top, g.ret, name))
         IN  At(GetIP(s))

\* GetFunctionNameByAddress: the loop over the top-level DIEs from the i-th on.
\* A function DIE without a name is passed over.
RECURSIVE FunctionNameFrom(_, _, _)
FunctionNameFrom(top, address, i) ==
    IF i > Len(top.children) THEN <<>>
    ELSE LET die == top.children[i]
         IN  IF /\ die.tag = "function"
                /\ die.begin_addr # NoAddr /\ die.end_addr # NoAddr
                /\ die.begin_addr <= address /\ address < die.end_addr
                /\ die.name # ""
             THEN <<die.name>>
             ELSE FunctionNameFrom(top, address, i + 1)

GetFunctionNameByAddress(top, address) ==
    IF top = NoDie THEN <<>> ELSE FunctionNameFrom(top, address, 1)

\* GetFunctionAddrByName: the loop over the top-level DIEs from the i-th on.
\* The first function DIE of that name ends the search.
RECURSIVE FunctionAddrFrom(_, _, _)
FunctionAddrFrom(top, name, i) ==
    IF i > Len(top.children) THEN <<>>
    ELSE LET die == top.children[i]
         IN  IF die.tag # "function" \/ die.name = "" \/ die.name # name
             THEN FunctionAddrFrom(top, name, i + 1)
             ELSE IF die.begin_addr = NoAddr THEN <<>>
             ELSE IF die.end_addr = NoAddr THEN <<>>
             ELSE <<<<die.begin_addr, die.end_addr>>>>

GetFunctionAddrByName(top, name) ==
    IF top = NoDie THEN <<>> ELSE FunctionAddrFrom(top, name, 1)

-----------------------------------------------------------------------------
(* The assembly parser (common/parser.h), from the tokens on.              *)

\* A token: its kind and what the lexer holds for it (getId, getNumber).
Tok(kind, id, num) == [kind |-> kind, id |-> id, num |-> num]
Id(name) == Tok("ID", name, 0)
Num(n) == Tok("NUM", "", n)
Str(s) == Tok("STRING", s, 0)
Sym(kind) == Tok(kind, "", 0)
EndTok == Sym("END")

ParserError == "ParserError"
Unreachable == "Unreachable"
NoOperandValue == [form |-> "none", regs |-> <<>>, imms |-> <<>>]
NoParser ==
    [toks |-> <<>>, pos |-> 0, program |-> <<>>, data |-> <<>>, err |-> NoErr,
     val |-> NoOperandValue, status |-> "none"]

\* Parser(std::istream& is): curtok is the first token.
Parser(toks) == [NoParser EXCEPT !.toks = toks, !.pos = 1, !.status = "new"]

\* curtok; the lexer returns END at the end of the input, again and again.
Curtok(p) == IF p.pos <= Len(p.toks) THEN p.toks[p.pos] ELSE EndTok
GetNext(p) == IF p.pos <= Len(p.toks) THEN [p EXCEPT !.pos = @ + 1] ELSE p

\* throw CreateError(...) and throw ParserError(...); UNREACHABLE and
\* NOT_IMPLEMENTED end the parse as well.
CreateError(p) == [p EXCEPT !.err = ParserError]
EndUnreachable(p) == [p EXCEPT !.err = Unreachable]

\* An operand: its form and the registers and immediates in it, in order.
MakeOperand(form, rs, is) == [form |-> form, regs |-> rs, imms |-> is]

\* The special registers are registers with an index of their own.
StackBasePointer == 0 - 1
StackPointer == 0 - 2
ProgramCounter == 0 - 3
\* The identifiers of the assembly texts, letter by letter.
Spelling ==
    [BP |-> <<"B", "P">>, SP |-> <<"S", "P">>, IP |-> <<"I", "P">>, R0 |-> <<"R", "0">>,
     R1 |-> <<"R", "1">>, R2 |-> <<"R", "2">>, R3 |-> <<"R", "3">>, R5 |-> <<"R", "5">>,
     R10 |-> <<"R", "1", "0">>, R1X |-> <<"R", "1", "X">>, RX |-> <<"R", "X">>,
     RAX |-> <<"R", "A", "X">>, F0 |-> <<"F", "0">>, F1 |-> <<"F", "1">>,
     XX |-> <<"X", "X">>, text |-> <<"t", "e", "x", "t">>, data |-> <<"d", "a", "t", "a">>,
     debug_line |-> <<"d", "e", "b", "u", "g", "_", "l", "i", "n", "e">>,
     ADD |-> <<"A", "D", "D">>, AND |-> <<"A", "N", "D">>, BKPT |-> <<"B", "K", "P", "T">>,
     BREAK |-> <<"B", "R", "E", "A", "K">>, CALL |-> <<"C", "A", "L", "L">>,
     CMP |-> <<"C", "M", "P">>, DEC |-> <<"D", "E", "C">>, DIV |-> <<"D", "I", "V">>,
     GETCHAR |-> <<"G", "E", "T", "C", "H", "A", "R">>, HALT |-> <<"H", "A", "L", "T">>,
     IDIV |-> <<"I", "D", "I", "V">>, IMUL |-> <<"I", "M", "U", "L">>,
     INC |-> <<"I", "N", "C">>, JA |-> <<"J", "A">>, JAE |-> <<"J", "A", "E">>,
     JB |-> <<"J", "B">>, JBE |-> <<"J", "B", "E">>, JE |-> <<"J", "E">>,
     JG |-> <<"J", "G">>, JGE |-> <<"J", "G", "E">>, JL |-> <<"J", "L">>,
     JLE |-> <<"J", "L", "E">>, JMP |-> <<"J", "M", "P">>, JNE |-> <<"J", "N", "E">>,
     JNO |-> <<"J", "N", "O">>, JNS |-> <<"J", "N", "S">>, JNZ |-> <<"J", "N", "Z">>,
     JO |-> <<"J", "O">>, JS |-> <<"J", "S">>, JZ |-> <<"J", "Z">>,
     LEA |-> <<"L", "E", "A">>, LOOP |-> <<"L", "O", "O", "P">>, LSH |-> <<"L", "S", "H">>,
     MOV |-> <<"M", "O", "V">>, MUL |-> <<"M", "U", "L">>, NEG |-> <<"N", "E", "G">>,
     NOP |-> <<"N", "O", "P">>, NOT |-> <<"N", "O", "T">>, OR |-> <<"O", "R">>,
     POP |-> <<"P", "O", "P">>, PUSH |-> <<"P", "U", "S", "H">>,
     PUTCHAR |-> <<"P", "U", "T", "C", "H", "A", "R">>,
     PUTNUM |-> <<"P", "U", "T", "N", "U", "M">>, RET |-> <<"R", "E", "T">>,
     RSH |-> <<"R", "S", "H">>, SUB |-> <<"S", "U", "B">>, XOR |-> <<"X", "O", "R">>]

\* std::atoi on letters and digits: the number the leading digits spell, 0
\* when there is none.
Digit == [c \in {"0", "1", "2", "3", "4", "5", "6", "7", "8", "9"} |->
            CASE c = "0" -> 0 [] c = "1" -> 1 [] c = "2" -> 2 [] c = "3" -> 3
              [] c = "4" -> 4 [] c = "5" -> 5 [] c = "6" -> 6 [] c = "7" -> 7
              [] c = "8" -> 8 [] c = "9" -> 9]
RECURSIVE atoi(_, _)
atoi(cs, n) ==
    IF cs = <<>> \/ Head(cs) \notin DOMAIN Digit THEN n
    ELSE atoi(Tail(cs), 10 * n + Digit[Head(cs)])

\* getRegister: BP, SP, IP, or a name that begins with R, whose number atoi
\* reads from what follows the R; any other name is an error.
getRegister(p, regname) ==
    IF regname = "BP" THEN [p EXCEPT !.val = StackBasePointer]
    ELSE IF regname = "SP" THEN [p EXCEPT !.val = StackPointer]
    ELSE IF regname = "IP" THEN [p EXCEPT !.val = ProgramCounter]
    ELSE IF Head(Spelling[regname]) # "R" THEN CreateError(p)
    ELSE [p EXCEPT !.val = atoi(Tail(Spelling[regname]), 0)]

\* Allows only register as operand.
ParseRegister(p) ==
    IF Curtok(p).kind = "ID"
    THEN LET Got(g) == IF g.err # NoErr THEN g
                       ELSE [GetNext(g) EXCEPT !.val = MakeOperand("R", <<g.val>>, <<>>)]
         IN  Got(getRegister(p, Curtok(p).id))
    ELSE CreateError(p)

\* Allows only immediate as operand.
ParseImm(p) ==
    IF Curtok(p).kind = "NUM"
    THEN [GetNext(p) EXCEPT !.val = MakeOperand("i", <<>>, <<Curtok(p).num>>)]
    ELSE CreateError(p)

ImmOrRegister(p) ==
    IF Curtok(p).kind = "ID" THEN ParseRegister(p)
    ELSE IF Curtok(p).kind = "NUM" THEN ParseImm(p)
    ELSE CreateError(p)

\* Allows [i], [R], [R + i].
SimpleMemory(p) ==
    IF Curtok(p).kind # "LBRACKET" THEN CreateError(p)
    ELSE IF Curtok(GetNext(p)).kind = "ID"
    THEN LET AfterImm(inner, m) ==
                 IF m.err # NoErr THEN m
                 ELSE IF Curtok(m).kind # "RBRACKET" THEN CreateError(m)
                 ELSE [m EXCEPT !.val = MakeOperand("[R+i]", inner.val.regs, m.val.imms)]
             AfterReg(inner) ==
                 IF inner.err # NoErr THEN inner
                 ELSE IF Curtok(inner).kind = "PLUS"
                      THEN AfterImm(inner, ParseImm(GetNext(inner)))
                      ELSE IF Curtok(inner).kind # "RBRACKET" THEN CreateError(inner)
                      ELSE [GetNext(inner) EXCEPT !.val = MakeOperand("[R]", inner.val.regs, <<>>)]
         IN  AfterReg(ParseRegister(GetNext(p)))
    ELSE LET AfterImm(inner) ==
                 IF inner.err # NoErr THEN inner
                 ELSE IF Curtok(inner).kind # "RBRACKET" THEN CreateError(inner)
                 ELSE [GetNext(inner) EXCEPT !.val = MakeOperand("[i]", <<>>, inner.val.imms)]
         IN  AfterImm(ParseImm(GetNext(p)))

ImmOrRegisterOrSimpleMemory(p) ==
    IF Curtok(p).kind \in {"ID", "NUM"} THEN ImmOrRegister(p)
    ELSE IF Curtok(p).kind = "LBRACKET" THEN SimpleMemory(p)
    ELSE CreateError(p)

\* What follows "[R + R": "]", or "* i" and the "]" that is checked but not
\* stepped over.
OperandRegReg(d, r1, r2) ==
    IF Curtok(d).kind = "RBRACKET"
    THEN [GetNext(d) EXCEPT !.val = MakeOperand("[R+R]", <<r1, r2>>, <<>>)]
    ELSE IF Curtok(d).kind = "TIMES"
         THEN IF Curtok(GetNext(d)).kind = "NUM"
              THEN LET f == GetNext(GetNext(d))
                   IN  IF Curtok(f).kind # "RBRACKET" THEN CreateError(f)
                       ELSE [f EXCEPT !.val = MakeOperand("[R+R*i]", <<r1, r2>>,
                                                          <<Curtok(GetNext(d)).num>>)]
              ELSE EndUnreachable(GetNext(d))
         ELSE EndUnreachable(d)

\* What follows "[R + i": "]", or "+ R" and then "]" or "* i ]".
OperandRegImm(d, r1, val) ==
    IF Curtok(d).kind = "RBRACKET"
    THEN [GetNext(d) EXCEPT !.val = MakeOperand("[R+i]", <<r1>>, <<val>>)]
    ELSE IF Curtok(d).kind # "PLUS" THEN CreateError(d)
    ELSE IF Curtok(GetNext(d)).kind # "ID" THEN CreateError(GetNext(d))
    ELSE LET Got(g) ==
                 IF g.err # NoErr THEN g
                 ELSE IF Curtok(GetNext(g)).kind = "RBRACKET"
                 THEN [GetNext(GetNext(g)) EXCEPT
                          !.val = MakeOperand("[R+i+R]", <<r1, g.val>>, <<val>>)]
                 ELSE IF Curtok(GetNext(g)).kind # "TIMES" THEN CreateError(GetNext(g))
                 ELSE IF Curtok(GetNext(GetNext(g))).kind # "NUM"
                      THEN CreateError(GetNext(GetNext(g)))
                 ELSE LET h == GetNext(GetNext(GetNext(g)))
                      IN  IF Curtok(h).kind # "RBRACKET" THEN CreateError(h)
                          ELSE [GetNext(h) EXCEPT
                                  !.val = MakeOperand("[R+i+R*i]", <<r1, g.val>>,
                                              <<val, Curtok(GetNext(GetNext(g))).num>>)]
         IN  Got(getRegister(GetNext(d), Curtok(GetNext(d)).id))

\* What follows "[R".
OperandReg(b, r1) ==
    IF Curtok(b).kind = "RBRACKET"
    THEN [GetNext(b) EXCEPT !.val = MakeOperand("[R]", <<r1>>, <<>>)]
    ELSE IF Curtok(b).kind = "PLUS"
    THEN IF Curtok(GetNext(b)).kind = "ID"
         THEN LET Got(g) == IF g.err # NoErr THEN g
                            ELSE OperandRegReg(GetNext(g), r1, g.val)
              IN  Got(getRegister(GetNext(b), Curtok(GetNext(b)).id))
         ELSE IF Curtok(GetNext(b)).kind = "NUM"
         THEN OperandRegImm(GetNext(GetNext(b)), r1, Curtok(GetNext(b)).num)
         ELSE EndUnreachable(GetNext(b))
    ELSE IF Curtok(b).kind = "TIMES"
    THEN IF Curtok(GetNext(b)).kind # "NUM" THEN CreateError(GetNext(b))
         ELSE LET d == GetNext(GetNext(b))
              IN  IF Curtok(d).kind # "RBRACKET" THEN CreateError(d)
                  ELSE [GetNext(d) EXCEPT
                          !.val = MakeOperand("[R*i]", <<r1>>, <<Curtok(GetNext(b)).num>>)]
    ELSE EndUnreachable(b)

\* Parses every kind of operand, specially for MOV.
Operand(p) ==
    IF Curtok(p).kind = "ID"
    THEN IF Curtok(GetNext(p)).kind = "PLUS"
         THEN IF Curtok(GetNext(GetNext(p))).kind # "NUM"
              THEN CreateError(GetNext(GetNext(p)))
              ELSE LET Got(g) ==
                           IF g.err # NoErr THEN g
                           ELSE [g EXCEPT !.val = MakeOperand("R+i", <<g.val>>,
                                                     <<Curtok(GetNext(GetNext(p))).num>>)]
                   IN  Got(getRegister(GetNext(GetNext(GetNext(p))), Curtok(p).id))
         ELSE LET Got(g) == IF g.err # NoErr THEN g
                            ELSE [g EXCEPT !.val = MakeOperand("R", <<g.val>>, <<>>)]
              IN  Got(getRegister(GetNext(p), Curtok(p).id))
    ELSE IF Curtok(p).kind = "NUM"
    THEN [GetNext(p) EXCEPT !.val = MakeOperand("i", <<>>, <<Curtok(p).num>>)]
    ELSE IF Curtok(p).kind = "LBRACKET"
    THEN IF Curtok(GetNext(p)).kind = "NUM"
         THEN [GetNext(GetNext(GetNext(p))) EXCEPT
                  !.val = MakeOperand("[i]", <<>>, <<Curtok(GetNext(p)).num>>)]
         ELSE IF Curtok(GetNext(p)).kind = "ID"
         THEN LET Got(g) == IF g.err # NoErr THEN g
                            ELSE OperandReg(GetNext(g), g.val)
              IN  Got(getRegister(GetNext(p), Curtok(GetNext(p)).id))
         ELSE EndUnreachable(GetNext(p))
    ELSE EndUnreachable(p)

\* The mnemonics, by the operands their instruction takes.
ArithmeticMnemonics ==
    {"ADD", "SUB", "MUL", "DIV", "IMUL", "IDIV", "AND", "OR", "XOR", "LSH", "RSH", "CMP"}
ConditionalJumps ==
    {"JZ", "JNZ", "JE", "JNE", "JG", "JGE", "JL", "JLE", "JA", "JAE", "JB", "JBE",
     "JO", "JNO", "JS", "JNS"}
RegisterMnemonics == {"INC", "DEC", "NEG", "NOT", "POP", "PUTCHAR", "PUTNUM", "GETCHAR"}
ImmOrRegisterMnemonics == {"JMP", "CALL", "PUSH"}
NullaryMnemonics == {"HALT", "NOP", "BKPT", "BREAK", "RET"}

MakeInstruction(name, ops) == [name |-> name, ops |-> ops]

\* PARSE_BINARY and the code of MOV: dest, ',', from.
ParseBinary(p, name, Dest(_), From(_)) ==
    LET AfterFrom(dest, f) ==
            IF f.err # NoErr THEN f
            ELSE [f EXCEPT !.val = MakeInstruction(name, <<dest, f.val>>)]
        AfterDest(d) ==
            IF d.err # NoErr THEN d
            ELSE IF Curtok(d).kind # "COMMA" THEN CreateError(d)
            ELSE AfterFrom(d.val, From(GetNext(d)))
    IN  AfterDest(Dest(p))

\* PARSE_UNARY.
ParseUnary(p, name, Op(_)) ==
    LET After(o) == IF o.err # NoErr THEN o
                    ELSE [o EXCEPT !.val = MakeInstruction(name, <<o.val>>)]
    IN  After(Op(p))

\* LEA: dest.getRegister() needs a register.
ParseLea(p) ==
    LET After(l) == IF l.err = NoErr /\ l.val.ops[1].form # "R" THEN EndUnreachable(l)
                    ELSE l
    IN  After(ParseBinary(p, "LEA", Operand, Operand))

Instruction(p) ==
    LET Named(q, ins_name) ==
            CASE ins_name = "MOV" -> ParseBinary(q, ins_name, Operand, Operand)
              [] ins_name = "LEA" -> ParseLea(q)
              [] ins_name \in ArithmeticMnemonics ->
                    ParseBinary(q, ins_name, ParseRegister, ImmOrRegisterOrSimpleMemory)
              [] ins_name = "LOOP" -> ParseBinary(q, ins_name, ParseRegister, ImmOrRegister)
              [] ins_name \in RegisterMnemonics -> ParseUnary(q, ins_name, ParseRegister)
              [] ins_name \in ImmOrRegisterMnemonics -> ParseUnary(q, ins_name, ImmOrRegister)
              [] ins_name \in ConditionalJumps ->
                    ParseUnary(q, ins_name, ImmOrRegisterOrSimpleMemory)
              [] ins_name \in NullaryMnemonics ->
                    [q EXCEPT !.val = MakeInstruction(ins_name, <<>>)]
              [] OTHER -> CreateError(q)
        Addressed(q) ==
            IF Curtok(q).kind # "ID" THEN CreateError(q)
            ELSE Named(GetNext(q), Curtok(q).id)
    IN  Addressed(IF Curtok(p).kind = "NUM" THEN GetNext(p) ELSE p)

RECURSIVE Text(_)
Text(p) ==
    IF Curtok(p).kind \in {"NUM", "ID"}
    THEN LET Pushed(ins) ==
                 IF ins.err # NoErr THEN ins
                 ELSE Text([ins EXCEPT !.program = Append(@, ins.val)])
         IN  Pushed(Instruction(p))
    ELSE p

\* The characters of the strings of the model.
StringChars == [hi |-> <<104, 105>>, empty |-> <<>>]

RECURSIVE Data(_)
Data(p) ==
    IF Curtok(p).kind = "STRING"
    THEN Data(GetNext([p EXCEPT !.data = @ \o StringChars[Curtok(p).id]]))
    ELSE IF Curtok(p).kind = "NUM"
    THEN Data(GetNext([p EXCEPT !.data = Append(@, Curtok(p).num)]))
    ELSE p

RECURSIVE SkipSection(_)
SkipSection(p) ==
    IF Curtok(p).kind \notin {"DOT", "END"} THEN SkipSection(GetNext(p)) ELSE p

Section(p) ==
    IF Curtok(p).kind # "ID" THEN CreateError(p)
    ELSE IF Curtok(p).id = "text" THEN Text(GetNext(p))
    ELSE IF Curtok(p).id = "data" THEN Data(GetNext(p))
    ELSE SkipSection(GetNext(p))

\* while (GetNextPrev() == TokenKind::DOT) Section();
RECURSIVE ParseSections(_)
ParseSections(p) ==
    IF Curtok(p).kind = "DOT"
    THEN LET Again(s) == IF s.err # NoErr THEN s ELSE ParseSections(s)
         IN  Again(Section(GetNext(p)))
    ELSE GetNext(p)

Parse(p) ==
    LET Done(r) == [r EXCEPT !.val = NoOperandValue,
                             !.status = IF r.err # NoErr THEN "failed" ELSE "returned"]
    IN  Done(IF Curtok(p).kind # "DOT" THEN CreateError(p) ELSE ParseSections(p))

-----------------------------------------------------------------------------
(* The operations as the front-end issues them, one at a time.             *)

\* What MapReasonToEvent does on a HardwareBreak that no watchpoint owns.  A
\* build with assertions aborts; a build with NDEBUG goes on to read
\* it->first of watchpoints.end(), which is undefined: any address comes out.
AssertBuild == [assert |-> TRUE, first |-> NoAddr]
PastTheEnd == {AssertBuild} \cup {[assert |-> FALSE, first |-> a] : a \in 0 .. MaxData}

\* The state an operation starts from.  drop is the process's behaviour
\* during the operation (see ProcessWriteText).
Begin(drop) ==
    [text |-> text, regs |-> regs, pstate |-> pstate, reason |-> reason,
     bps |-> software_breakpoints, cached |-> cached_event, wait_ok |-> wait_ok,
     watchpoints |-> watchpoints, dbg |-> dbg_regs, fregs |-> fregs,
     drop |-> drop, past_end |-> AssertBuild, err |-> NoErr, ev |-> NoEvent, ret |-> <<>>, calls |-> <<>>,
     steps |-> <<>>,
     xlog |-> <<>>,
     bp |-> [data |-> "", enabled |-> FALSE]]

\* The state an operation starts from in a build that behaves as e on the
\* read past the end of the watchpoint table.
BeginIn(drop, e) == [Begin(drop) EXCEPT !.past_end = e]

Idle == [phase |-> "idle", addr |-> NoAddr, orig |-> "", n |-> 0, seen |-> {}]

\* The operations on the breakpoint at scn.addr since its SetBreakpoint, as
\* long as they are only operations on that breakpoint.
ScnNext(op, address, words, r) ==
    CASE op = "SetBreakpoint" /\ r.err = NoErr ->
            [phase |-> "set", addr |-> address, orig |-> text[address + 1], n |-> 0,
             seen |-> {}]
      [] op \in {"EnableSoftwareBreakpoint", "DisableSoftwareBreakpoint"}
            /\ address = scn.addr /\ scn.phase \in {"set", "toggled"} ->
            [scn EXCEPT !.phase = "toggled", !.seen = @ \cup {op}]
      [] op = "WriteText" /\ r.err = NoErr /\ address = scn.addr /\ scn.phase = "set" ->
            [scn EXCEPT !.phase = "written", !.n = Len(words)]
      [] op = "UnsetBreakpoint" /\ r.err = NoErr /\ address = scn.addr
            /\ scn.phase \in {"set", "toggled"} ->
            [scn EXCEPT !.phase = "closed"]
      [] op = "UnsetBreakpoint" /\ r.err = NoErr /\ address = scn.addr
            /\ scn.phase = "written" ->
            [scn EXCEPT !.phase = "written_unset"]
      [] OTHER -> Idle

NoVisit == [A |-> NoAddr, saved |-> "", exec |-> <<>>, done |-> FALSE]

\* A visit: ContinueExecution called with IP at an enabled breakpoint A, and
\* the WaitForDebugEvent that follows it; exec is what the debuggee executed.
VisitNext(op, r) ==
    LET ip == regs.IP % Modulus
    IN  CASE op = "ContinueExecution" /\ r.err = NoErr
               /\ ip \in DOMAIN software_breakpoints
               /\ software_breakpoints[ip].enabled ->
                [A |-> ip, saved |-> software_breakpoints[ip].data, exec |-> r.xlog,
                 done |-> FALSE]
          [] op = "WaitForDebugEvent" /\ visit.A # NoAddr /\ ~visit.done ->
                [visit EXCEPT !.exec = @ \o r.xlog, !.done = TRUE]
          [] OTHER -> NoVisit

\* ref_text follows the words the front-end wrote through Native.WriteText.
RefNext(op, address, words, r) ==
    IF op = "WriteText" /\ r.err = NoErr
    THEN [i \in 1 .. TextSize |->
            IF i - 1 >= address /\ i - 1 < address + Len(words)
            THEN words[i - address] ELSE ref_text[i]]
    ELSE ref_text

\* obs: whether the specification records the operation in the history
\* variables ref_text, scn, visit and last (the specification of the whole machine
\* does not).
Store(r) ==
    /\ text' = r.text
    /\ regs' = r.regs
    /\ pstate' = r.pstate
    /\ reason' = r.reason
    /\ software_breakpoints' = r.bps
    /\ cached_event' = r.cached
    /\ wait_ok' = r.wait_ok
    /\ watchpoints' = r.watchpoints
    /\ dbg_regs' = r.dbg
    /\ fregs' = r.fregs
    /\ UNCHANGED <<svars, pvars>>

Commit(obs, op, address, words, r) ==
    /\ Store(r)
    /\ ref_text' = IF obs THEN RefNext(op, address, words, r) ELSE ref_text
    /\ scn' = IF obs THEN ScnNext(op, address, words, r) ELSE scn
    /\ visit' = IF obs THEN VisitNext(op, r) ELSE visit
    /\ last' = IF obs
               THEN [op |-> op, addr |-> address, n |-> Len(words), err |-> r.err,
                     ev |-> r.ev, calls |-> r.calls, ret |-> r.ret]
               ELSE last

\* The front-end talks to a stopped debuggee; after ContinueExecution it waits.
Stopped == pstate = "stopped"
Alive == reason # "ExecutionEnd"

\* The words the front-end writes: an ordinary instruction and the trap opcode.
WriteWords == {"MOV R1, 2", "BKPT"}
WordSeqs == UNION {[1 .. n -> WriteWords] : n \in 1 .. MaxWrite}

\* The builds an operation is tried in: a HardwareBreak needs an activated
\* debug register, so without one the builds do not differ.
Builds == IF dbg_regs.active = {} THEN {AssertBuild} ELSE PastTheEnd

SetBreakpointOp(obs) ==
    /\ Stopped
    /\ Cardinality(DOMAIN software_breakpoints) < MaxBps
    /\ \E address \in Addrs, drop \in BOOLEAN :
          Commit(obs, "SetBreakpoint", address, <<>>, SetBreakpoint(Begin(drop), address))

UnsetBreakpointOp(obs) ==
    /\ Stopped
    /\ \E address \in Addrs :
          Commit(obs, "UnsetBreakpoint", address, <<>>, UnsetBreakpoint(Begin(FALSE), address))

EnableSoftwareBreakpointOp(obs) ==
    /\ Stopped
    /\ \E address \in Addrs, drop \in BOOLEAN :
          Commit(obs, "EnableSoftwareBreakpoint", address, <<>>,
                 EnableSoftwareBreakpoint(Begin(drop), address))

DisableSoftwareBreakpointOp(obs) ==
    /\ Stopped
    /\ \E address \in Addrs :
          Commit(obs, "DisableSoftwareBreakpoint", address, <<>>,
                 DisableSoftwareBreakpoint(Begin(FALSE), address))

WriteTextOp(obs) ==
    /\ Stopped
    /\ \E address \in Addrs, words \in WordSeqs :
          Commit(obs, "WriteText", address, words, WriteText(Begin(FALSE), address, words))

PerformSingleStepOp(obs) ==
    /\ Stopped /\ Alive
    /\ \E drop \in BOOLEAN, e \in Builds :
          Commit(obs, "PerformSingleStep", NoAddr, <<>>, PerformSingleStep(BeginIn(drop, e)))

DoRawSingleStepOp(obs) ==
    /\ Stopped /\ Alive
    /\ \E e \in Builds :
          Commit(obs, "DoRawSingleStep", NoAddr, <<>>, DoRawSingleStep(BeginIn(FALSE, e)))

ContinueExecutionOp(obs) ==
    /\ Stopped /\ Alive
    /\ \E drop \in BOOLEAN, e \in Builds :
          Commit(obs, "ContinueExecution", NoAddr, <<>>, ContinueExecution(BeginIn(drop, e)))

WaitForDebugEventOp(obs) ==
    /\ (cached_event # NoEvent /\ Stopped) \/ pstate \in {"resumed", "stepping"}
    /\ \E e \in Builds :
          Commit(obs, "WaitForDebugEvent", NoAddr, <<>>, WaitForDebugEvent(BeginIn(FALSE, e)))

\* An operation on one register, recorded with the name and the value given.
CommitRegister(op, name, value, r) ==
    /\ Store(r)
    /\ UNCHANGED <<ref_text, scn, visit>>
    /\ last' = [op |-> op, addr |-> NoAddr, n |-> 0, err |-> r.err, ev |-> r.ev,
                calls |-> r.calls, ret |-> r.ret, name |-> name, value |-> value]

\* Names the front-end passes: integer registers, float registers, neither.
RegisterNames == {"IP", "R0", "R1", "F0", "F1", "XX"}
RegisterValues == 0 .. MaxValue

GetRegisterOp ==
    /\ Stopped
    /\ \E name \in RegisterNames :
          CommitRegister("GetRegister", name, 0, GetRegister(Begin(FALSE), name))

SetRegisterOp ==
    /\ Stopped
    /\ \E name \in RegisterNames, value \in RegisterValues :
          CommitRegister("SetRegister", name, value, SetRegister(Begin(FALSE), name, value))

GetFloatRegisterOp ==
    /\ Stopped
    /\ \E name \in RegisterNames :
          CommitRegister("GetFloatRegister", name, 0, GetFloatRegister(Begin(FALSE), name))

SetFloatRegisterOp ==
    /\ Stopped
    /\ \E name \in RegisterNames, value \in RegisterValues :
          CommitRegister("SetFloatRegister", name, value,
                         SetFloatRegister(Begin(FALSE), name, value))

\* An operation on a whole register map, recorded with the map given.
CommitRegisters(op, m, r) ==
    /\ Store(r)
    /\ UNCHANGED <<ref_text, scn, visit>>
    /\ last' = [op |-> op, addr |-> NoAddr, n |-> 0, err |-> r.err, ev |-> r.ev,
                calls |-> r.calls, ret |-> r.ret, name |-> "", value |-> 0, map |-> m]

\* Maps the front-end passes: every register, or some of them only.
RegisterMaps ==
    UNION {[D -> RegisterValues] : D \in {{"IP", "R0", "R1"}, {"R0", "R1"}, {"R0"}}}
FloatRegisterMaps ==
    UNION {[D -> RegisterValues] : D \in {{"F0", "F1"}, {"F0"}}}

GetRegistersOp ==
    /\ Stopped
    /\ CommitRegisters("GetRegisters", <<>>, GetRegisters(Begin(FALSE)))

SetRegistersOp ==
    /\ Stopped
    /\ \E m \in RegisterMaps :
          CommitRegisters("SetRegisters", m, SetRegisters(Begin(FALSE), m))

GetFloatRegistersOp ==
    /\ Stopped
    /\ CommitRegisters("GetFloatRegisters", <<>>, GetFloatRegisters(Begin(FALSE)))

SetFloatRegistersOp ==
    /\ Stopped
    /\ \E m \in FloatRegisterMaps :
          CommitRegisters("SetFloatRegisters", m, SetFloatRegisters(Begin(FALSE), m))

GetIPOp ==
    /\ Stopped
    /\ CommitRegister("GetIP", "IP", 0, GetIP(Begin(FALSE)))

\* An operation of the source layer on Native, recorded with the line given,
\* the steps taken and the instructions the debuggee executed.
CommitSource(op, line, r) ==
    /\ Store(r)
    /\ UNCHANGED <<ref_text, scn, visit>>
    /\ last' = [op |-> op, addr |-> NoAddr, n |-> 0, err |-> r.err, ev |-> r.ev,
                calls |-> r.calls, ret |-> r.ret, line |-> line, steps |-> r.steps,
                xlog |-> r.xlog]

\* Lines the front-end passes: the lines of the file and one past them.
Lines == 0 .. MaxLine
QueryLines == 0 .. (MaxLine + 1)

SetSourceSoftwareBreakpointOp ==
    /\ Stopped
    /\ Cardinality(DOMAIN software_breakpoints) < MaxBps
    /\ \E line \in QueryLines, drop \in BOOLEAN :
          CommitSource("SetSourceSoftwareBreakpoint", line,
                       SetSourceSoftwareBreakpoint(Begin(drop), line_mapping, line))

UnsetSourceSoftwareBreakpointOp ==
    /\ Stopped
    /\ \E line \in QueryLines :
          CommitSource("UnsetSourceSoftwareBreakpoint", line,
                       UnsetSourceSoftwareBreakpoint(Begin(FALSE), line_mapping, line))

EnableSourceSoftwareBreakpointOp ==
    /\ Stopped
    /\ \E line \in QueryLines, drop \in BOOLEAN :
          CommitSource("EnableSourceSoftwareBreakpoint", line,
                       EnableSourceSoftwareBreakpoint(Begin(drop), line_mapping, line))

DisableSourceSoftwareBreakpointOp ==
    /\ Stopped
    /\ \E line \in QueryLines :
          CommitSource("DisableSourceSoftwareBreakpoint", line,
                       DisableSourceSoftwareBreakpoint(Begin(FALSE), line_mapping, line))

StepInOp ==
    /\ Stopped /\ Alive
    /\ \E drop \in BOOLEAN, e \in Builds :
          CommitSource("StepIn", NoLine, StepIn(BeginIn(drop, e), line_mapping))

StepOverOp ==
    /\ Stopped /\ Alive
    /\ \E drop \in BOOLEAN, e \in Builds :
          CommitSource("StepOver", NoLine, StepOver(BeginIn(drop, e), line_mapping))

WatchAddrs == 0 .. MaxData

SetWatchpointWriteOp(obs) ==
    /\ Stopped
    /\ \E address \in WatchAddrs :
          Commit(obs, "SetWatchpointWrite", address, <<>>,
                 SetWatchpointWrite(Begin(FALSE), address))

RemoveWatchpointOp(obs) ==
    /\ Stopped
    /\ \E address \in WatchAddrs :
          Commit(obs, "RemoveWatchpoint", address, <<>>,
                 RemoveWatchpoint(Begin(FALSE), address))

\* The programs a session starts with: MOV R0, 1; MOV R1, 2; ...; HALT, and
\* the same with a BKPT or a HALT of its own in one place.
Scenario ==
    [i \in 1 .. TextSize |->
        IF i = TextSize THEN "HALT" ELSE IF i = 1 THEN "MOV R0, 1" ELSE "MOV R1, 2"]
Programs ==
    {Scenario} \cup
    {[Scenario EXCEPT ![k] = w] : k \in 1 .. (TextSize - 1), w \in {"BKPT", "HALT"}}

\* Programs that write to the data addresses 0 and 1 in turn.
WatchScenario ==
    [i \in 1 .. TextSize |->
        IF i = TextSize THEN "HALT"
        ELSE IF i % 2 = 1 THEN "MOV [0], 42" ELSE "MOV [1], 42"]
WatchPrograms == {WatchScenario, [WatchScenario EXCEPT ![1] = "MOV [1], 42"]}

StartRegisters == [IP |-> 0, R0 |-> 0, R1 |-> 0]

\* The start of a session: the debuggee stopped at its first instruction, no
\* breakpoints or watchpoints, and the debugging information loaded, if any.
InitWith(programs, registers, mappings, dies) ==
    /\ text \in programs
    /\ regs \in registers
    /\ pstate = "stopped"
    /\ reason = "ExecutionBegin"
    /\ software_breakpoints = <<>>
    /\ cached_event = NoEvent
    /\ wait_ok = TRUE
    /\ ref_text = text
    /\ scn = Idle
    /\ visit = NoVisit
    /\ last = [op |-> "Init", addr |-> NoAddr, n |-> 0, err |-> NoErr, ev |-> NoEvent,
               calls |-> <<>>, ret |-> <<>>]
    /\ watchpoints = <<>>
    /\ dbg_regs = NoDebugRegisters
    /\ fregs = [F0 |-> 0, F1 |-> 0]
    /\ line_mapping \in mappings
    /\ top_die \in dies
    /\ cached_types = <<>>
    /\ interp = NoInterpreter
    /\ reply = NoReply
    /\ parser = NoParser

InitNative(programs) == InitWith(programs, {StartRegisters}, {NoLineMapping}, {NoDie})

Init == InitNative(Programs)

Next ==
    \/ SetBreakpointOp(FALSE)
    \/ UnsetBreakpointOp(FALSE)
    \/ EnableSoftwareBreakpointOp(FALSE)
    \/ DisableSoftwareBreakpointOp(FALSE)
    \/ WriteTextOp(FALSE)
    \/ PerformSingleStepOp(FALSE)
    \/ DoRawSingleStepOp(FALSE)
    \/ ContinueExecutionOp(FALSE)
    \/ WaitForDebugEventOp(FALSE)

Spec == Init /\ [][Next]_vars

\* The breakpoint table and the text alone: the debuggee never runs.
NextBp ==
    \/ SetBreakpointOp(TRUE)
    \/ UnsetBreakpointOp(TRUE)
    \/ EnableSoftwareBreakpointOp(TRUE)
    \/ DisableSoftwareBreakpointOp(TRUE)
    \/ WriteTextOp(TRUE)

SpecBp == Init /\ [][NextBp]_vars

\* Breakpoints and execution of a program whose text the front-end leaves alone.
NextRun ==
    \/ SetBreakpointOp(TRUE)
    \/ UnsetBreakpointOp(TRUE)
    \/ EnableSoftwareBreakpointOp(TRUE)
    \/ DisableSoftwareBreakpointOp(TRUE)
    \/ PerformSingleStepOp(TRUE)
    \/ DoRawSingleStepOp(TRUE)
    \/ ContinueExecutionOp(TRUE)
    \/ WaitForDebugEventOp(TRUE)

SpecRun == Init /\ [][NextRun]_vars

\* Watchpoints and execution of a program that writes to data memory.
InitWatch == InitNative(WatchPrograms)

NextWatch ==
    \/ SetWatchpointWriteOp(TRUE)
    \/ RemoveWatchpointOp(TRUE)
    \/ DoRawSingleStepOp(TRUE)
    \/ ContinueExecutionOp(TRUE)
    \/ WaitForDebugEventOp(TRUE)

SpecWatch == InitWatch /\ [][NextWatch]_vars

\* The registers of a stopped debuggee.
InitRegisters == InitNative({Scenario})

NextRegisters ==
    \/ GetRegisterOp
    \/ SetRegisterOp
    \/ GetFloatRegisterOp
    \/ SetFloatRegisterOp
    \/ GetRegistersOp
    \/ SetRegistersOp
    \/ GetFloatRegistersOp
    \/ SetFloatRegistersOp
    \/ GetIPOp

SpecRegisters == InitRegisters /\ [][NextRegisters]_vars

\* The DIE trees: a compile unit with one function of up to MaxChildren
\* children, each a variable x or y or a scope of up to MaxChildren variables;
\* the function and the scopes with a range around the queried addresses or
\* without one.
Ranges == {<<0, 2>>, <<1, 2>>, <<NoAddr, NoAddr>>}
VariableDies == {Die("variable", n, NoAddr, NoAddr, <<>>) : n \in {"x", "y"}}
SeqsOf(S) == UNION {[1 .. n -> S] : n \in 1 .. MaxChildren}
ScopeDies == {Die("scope", "", r[1], r[2], ch) : r \in Ranges, ch \in SeqsOf(VariableDies)}
FunctionDies ==
    {Die("function", "main", r[1], r[2], ch) :
        r \in Ranges, ch \in SeqsOf(VariableDies \cup ScopeDies)}
DieTrees == {Die("compile_unit", "", NoAddr, NoAddr, <<f>>) : f \in FunctionDies}
QueryAddrs == 0 .. 2

GetActiveVariablesOp ==
    /\ \E address \in QueryAddrs :
          reply' = [op |-> "GetActiveVariables", address |-> address,
                  result |-> GetActiveVariables(top_die, address)]
    /\ UNCHANGED <<nvars, pvars, line_mapping, top_die, cached_types, interp>>

\* The line mappings: every partial map from the lines to text addresses.
LineMappings ==
    UNION {{[loaded |-> TRUE, map |-> m] : m \in [L -> 0 .. (TextSize - 1)]} :
              L \in SUBSET Lines}

\* Source breakpoints and source-level stepping, next to instruction-level
\* breakpoints, on a program with line information or without.
InitStep ==
    InitWith({Scenario}, {StartRegisters}, LineMappings \cup {NoLineMapping}, {NoDie})

NextScope == GetActiveVariablesOp

InitScope ==
    InitWith({Scenario}, {StartRegisters}, {NoLineMapping}, DieTrees \cup {NoDie})

SpecScope == InitScope /\ [][NextScope]_vars

AddrToLineOp ==
    /\ \E addr \in Addrs \cup {TextSize} :
          reply' = [op |-> "AddrToLine", addr |-> addr,
                    result |-> AddrToLine(line_mapping, addr)]
    /\ UNCHANGED <<nvars, pvars, line_mapping, top_die, cached_types, interp>>

LineToAddrOp ==
    /\ \E line \in QueryLines :
          reply' = [op |-> "LineToAddr", line |-> line,
                    result |-> LineToAddr(line_mapping, line)]
    /\ UNCHANGED <<nvars, pvars, line_mapping, top_die, cached_types, interp>>

NextLines ==
    \/ AddrToLineOp
    \/ LineToAddrOp

\* The two directions of the line mapping.
SpecLines == InitStep /\ [][NextLines]_vars

\* The type DIEs: each id of 1 .. MaxTypes is a primitive, a structured or a
\* pointer type, with its attributes present or missing; members and pointers
\* refer to any of the ids or to an id without a DIE.
TypeIds == 1 .. MaxTypes
TypeRefs == 1 .. (MaxTypes + 1)
MemberLists ==
    UNION {[1 .. n -> {[name |-> "next", type_id |-> r, offset |-> 0] : r \in TypeRefs}] :
              n \in 1 .. MaxMembers}
PrimitiveDies(id) ==
    {TypeDie("primitive_type", id, n[1], n[2], NoId, NoMembers, <<>>) :
        n \in {<<"int", 1>>, <<"int", NoSize>>, <<"quad", 1>>}}
StructuredDies(id) ==
    {TypeDie("structured_type", id, name, size, NoId, members, <<>>) :
        name \in {"node", ""}, size \in {1, NoSize},
        members \in {NoMembers} \cup {[present |-> TRUE, m |-> m] : m \in MemberLists}}
PointerDies(id) ==
    {TypeDie("pointer_type", id, "", size, r, NoMembers, <<>>) :
        size \in {1, NoSize}, r \in TypeRefs \cup {NoId}}
TypeDies(id) == PrimitiveDies(id) \cup StructuredDies(id) \cup PointerDies(id)
TypeTrees ==
    {TypeDie("compile_unit", NoId, "", NoSize, NoId, NoMembers, [i \in TypeIds |-> d[i]]) :
        d \in {f \in [TypeIds -> UNION {TypeDies(i) : i \in TypeIds}] :
                  \A i \in TypeIds : f[i].id = i}}

\* A chain of structured types that are members of each other is never
\* longer than the number of type DIEs unless it repeats one.
MaxDepth == MaxTypes

ReconstructTypeInformationOp ==
    /\ reply.op = "ReconstructTypeInformation" => ~reply.diverged
    /\ \E id \in TypeRefs :
          LET r == ReconstructTypeInformation(top_die, cached_types, id, MaxDepth)
          IN  /\ cached_types' = r.cache
              /\ reply' = [op |-> "ReconstructTypeInformation", id |-> id,
                           result |-> r.type, diverged |-> r.diverged]
    /\ UNCHANGED <<nvars, pvars, line_mapping, top_die, interp>>

InitTypes == InitWith({Scenario}, {StartRegisters}, {NoLineMapping}, TypeTrees)

NextTypes == ReconstructTypeInformationOp

SpecTypes == InitTypes /\ [][NextTypes]_vars

\* The location programs: up to MaxProgram instructions.
LocExprs == {PushImm(1), PushReg(0), BaseOffset(1), Add, Dereference}
LocPrograms == UNION {[1 .. n -> LocExprs] : n \in 0 .. MaxProgram}

InterpretOp ==
    /\ interp.status # "running"
    /\ \E exprs \in LocPrograms :
          /\ interp' = ExpressionInterpreter(exprs, interp)
          /\ reply' = [op |-> "Interpret", result |-> NoOperand,
                       before |-> [status |-> interp.status, left |-> Len(interp.s)]]
    /\ UNCHANGED <<nvars, pvars, line_mapping, top_die, cached_types>>

InterpretOneOp ==
    /\ interp.status = "running"
    /\ interp.pc <= Len(interp.exprs)
    /\ interp' = InterpretOne(interp, regs.BP)
    /\ UNCHANGED <<nvars, pvars, line_mapping, top_die, cached_types, reply>>

InterpretEndOp ==
    /\ interp.status = "running"
    /\ interp.pc > Len(interp.exprs)
    /\ interp' = InterpretEnd(interp)
    /\ reply' = [reply EXCEPT !.result = IF interp'.status = "returned"
                                          THEN Top(interp'.s) ELSE NoOperand]
    /\ UNCHANGED <<nvars, pvars, line_mapping, top_die, cached_types>>

InitInterp ==
    InitWith({Scenario}, {[IP |-> 0, R0 |-> 0, R1 |-> 0, BP |-> b] : b \in 0 .. 1},
             {NoLineMapping}, {NoDie})

NextInterp ==
    \/ InterpretOp
    \/ InterpretOneOp
    \/ InterpretEndOp

SpecInterp == InitInterp /\ [][NextInterp]_vars

NextStep ==
    \/ SetBreakpointOp(TRUE)
    \/ SetSourceSoftwareBreakpointOp
    \/ UnsetSourceSoftwareBreakpointOp
    \/ EnableSourceSoftwareBreakpointOp
    \/ DisableSourceSoftwareBreakpointOp
    \/ StepInOp
    \/ StepOverOp

SpecStep == InitStep /\ [][NextStep]_vars

\* The variables of a function and of a scope in it, each with a location
\* program that is missing, empty, well-formed or failing.
LocationExprs ==
    {NoLocationExpr, LocationExpr(<<>>), LocationExpr(<<BaseOffset(1)>>),
     LocationExpr(<<BaseOffset(1), Dereference>>), LocationExpr(<<Add>>),
     LocationExpr(<<PushImm(1), Dereference>>), LocationExpr(<<PushImm(1), PushImm(1)>>)}
LocationTrees ==
    {Die("compile_unit", "", NoAddr, NoAddr,
         <<Die("function", "main", 0, 2,
               <<VariableDie("x", lx),
                 Die("scope", "", 1, 2, <<VariableDie("y", ly)>>)>>)>>) :
        lx \in LocationExprs, ly \in LocationExprs}
VariableNames == {"x", "y", "z"}

GetVariableLocationOp ==
    /\ \E name \in VariableNames :
          LET r == GetVariableLocation(Begin(FALSE), top_die, name)
          IN  reply' = [op |-> "GetVariableLocation", name |-> name,
                        result |-> r.ret, err |-> r.err]
    /\ UNCHANGED <<nvars, pvars, line_mapping, top_die, cached_types, interp>>

\* The location of a variable, asked for wherever the debuggee stopped.
InitLocation ==
    InitWith({Scenario},
             {[IP |-> ip, R0 |-> 0, R1 |-> 0, BP |-> b] : ip \in 0 .. 2, b \in 0 .. 1},
             {NoLineMapping}, LocationTrees \cup {NoDie})

NextLocation == GetVariableLocationOp

SpecLocation == InitLocation /\ [][NextLocation]_vars

\* The top-level DIEs of the function lookup: functions with or without a
\* name, a begin and an end address, and a DIE of another tag that has all
\* three.
TopLevelDies ==
    {Die("function", n, b, e, <<>>) :
        n \in {"", "f", "g"}, b \in {NoAddr, 0, 1}, e \in {NoAddr, 1, 2}}
    \cup {Die("scope", "f", 0, 2, <<>>)}
FunctionTrees ==
    {Die("compile_unit", "", NoAddr, NoAddr, ch) :
        ch \in UNION {[1 .. n -> TopLevelDies] : n \in 0 .. MaxFunctions}}
FunctionNames == {"f", "g", "h"}

GetFunctionNameByAddressOp ==
    /\ \E address \in QueryAddrs :
          reply' = [op |-> "GetFunctionNameByAddress", address |-> address,
                    result |-> GetFunctionNameByAddress(top_die, address)]
    /\ UNCHANGED <<nvars, pvars, line_mapping, top_die, cached_types, interp>>

GetFunctionAddrByNameOp ==
    /\ \E name \in FunctionNames :
          reply' = [op |-> "GetFunctionAddrByName", name |-> name,
                    result |-> GetFunctionAddrByName(top_die, name)]
    /\ UNCHANGED <<nvars, pvars, line_mapping, top_die, cached_types, interp>>

InitFunctions ==
    InitWith({Scenario}, {StartRegisters}, {NoLineMapping}, FunctionTrees \cup {NoDie})

NextFunctions ==
    \/ GetFunctionNameByAddressOp
    \/ GetFunctionAddrByNameOp

SpecFunctions == InitFunctions /\ [][NextFunctions]_vars

\* An assembly text as it is written: each operand, instruction and section
\* as its tokens.
RegisterName(r) ==
    CASE r = StackBasePointer -> "BP"
      [] r = StackPointer -> "SP"
      [] r = ProgramCounter -> "IP"
      [] OTHER -> CHOOSE n \in {"R0", "R1", "R2", "R3"} : atoi(Tail(Spelling[n]), 0) = r
WriteOperand(o) ==
    LET R(k) == Id(RegisterName(o.regs[k]))
        I(k) == Num(o.imms[k])
        L == Sym("LBRACKET")
        B == Sym("RBRACKET")
        P == Sym("PLUS")
        T == Sym("TIMES")
    IN  CASE o.form = "R" -> <<R(1)>>
          [] o.form = "i" -> <<I(1)>>
          [] o.form = "R+i" -> <<R(1), P, I(1)>>
          [] o.form = "[i]" -> <<L, I(1), B>>
          [] o.form = "[R]" -> <<L, R(1), B>>
          [] o.form = "[R+i]" -> <<L, R(1), P, I(1), B>>
          [] o.form = "[R+R]" -> <<L, R(1), P, R(2), B>>
          [] o.form = "[R+R*i]" -> <<L, R(1), P, R(2), T, I(1), B>>
          [] o.form = "[R+i+R]" -> <<L, R(1), P, I(1), P, R(2), B>>
          [] o.form = "[R+i+R*i]" -> <<L, R(1), P, I(1), P, R(2), T, I(2), B>>
          [] o.form = "[R*i]" -> <<L, R(1), T, I(1), B>>
WriteInstruction(i) ==
    <<Id(i.name)>> \o
    (CASE Len(i.ops) = 0 -> <<>>
       [] Len(i.ops) = 1 -> WriteOperand(i.ops[1])
       [] Len(i.ops) = 2 -> WriteOperand(i.ops[1]) \o <<Sym("COMMA")>> \o WriteOperand(i.ops[2]))

\* A line of a text section: the instruction and whether a ';' follows it.
Line(ins, semi) == [ins |-> ins, semi |-> semi]
RECURSIVE WriteLines(_)
WriteLines(lines) ==
    IF lines = <<>> THEN <<>>
    ELSE WriteInstruction(Head(lines).ins) \o
         (IF Head(lines).semi THEN <<Sym("SEMICOLON")>> ELSE <<>>) \o WriteLines(Tail(lines))

\* A section: '.', its name, and its lines (text) or its tokens (any other).
TextSection(lines) == [name |-> "text", lines |-> lines, toks |-> <<>>]
RawSection(name, toks) == [name |-> name, lines |-> <<>>, toks |-> toks]
RECURSIVE WriteSections(_)
WriteSections(sections) ==
    IF sections = <<>> THEN <<>>
    ELSE <<Sym("DOT"), Id(Head(sections).name)>> \o WriteLines(Head(sections).lines) \o
         Head(sections).toks \o WriteSections(Tail(sections))

\* An input: sections, and possibly one token written wrongly.
NoDefect == [at |-> 0, tok |-> EndTok]
Input(sections, defect) == [sections |-> sections, defect |-> defect]
WriteInput(input) ==
    [k \in 1 .. Len(WriteSections(input.sections)) |->
        IF k = input.defect.at THEN input.defect.tok ELSE WriteSections(input.sections)[k]]

\* The operands and instructions of the inputs.
FullOperands ==
    {MakeOperand("R", <<1>>, <<>>), MakeOperand("i", <<>>, <<4>>),
     MakeOperand("R+i", <<1>>, <<4>>), MakeOperand("[i]", <<>>, <<4>>),
     MakeOperand("[R]", <<1>>, <<>>), MakeOperand("[R+i]", <<1>>, <<4>>),
     MakeOperand("[R+R]", <<1, 2>>, <<>>), MakeOperand("[R+R*i]", <<1, 2>>, <<2>>),
     MakeOperand("[R+i+R]", <<1, 2>>, <<4>>), MakeOperand("[R+i+R*i]", <<1, 2>>, <<4, 2>>),
     MakeOperand("[R*i]", <<1>>, <<2>>)}
SimpleMemoryOperands ==
    {MakeOperand("[i]", <<>>, <<4>>), MakeOperand("[R]", <<StackBasePointer>>, <<>>),
     MakeOperand("[R+i]", <<1>>, <<4>>)}
R3 == MakeOperand("R", <<3>>, <<>>)
Halt == MakeInstruction("HALT", <<>>)
MovInstructions ==
    {MakeInstruction("MOV", <<o, R3>>) : o \in FullOperands} \cup
    {MakeInstruction("MOV", <<R3, o>>) : o \in FullOperands}
SimpleMemoryInstructions ==
    {MakeInstruction(m, <<R3, o>>) : m \in ArithmeticMnemonics, o \in SimpleMemoryOperands} \cup
    {MakeInstruction(m, <<o>>) : m \in ConditionalJumps, o \in SimpleMemoryOperands}
PlainInstructions ==
    {Halt, MakeInstruction("MOV", <<MakeOperand("R", <<0>>, <<>>), MakeOperand("i", <<>>, <<1>>)>>),
     MakeInstruction("ADD", <<R3, MakeOperand("[R]", <<1>>, <<>>)>>)}

\* One instruction of every form, alone or with a HALT after it.
OperandInputs ==
    {Input(<<TextSection(<<Line(i, FALSE)>> \o rest)>>, NoDefect) :
        i \in MovInstructions \cup SimpleMemoryInstructions,
        rest \in {<<>>, <<Line(Halt, FALSE)>>}}

\* Up to MaxLines plain instructions, each with a ';' or without, and a data
\* section after them or none.
DataSection == RawSection("data", <<Num(1), Str("hi"), Num(2)>>)
LineLists ==
    UNION {[1 .. n -> {Line(i, s) : i \in PlainInstructions, s \in BOOLEAN}] :
              n \in 1 .. MaxLines}
SemicolonInputs ==
    {Input(<<TextSection(lines)>> \o tail, NoDefect) :
        lines \in LineLists, tail \in {<<>>, <<DataSection>>}}

\* Up to MaxSections sections: text (its instruction followed by a ';' or
\* not, or ending with a [reg + imm] operand), data and unknown ones.
Sections ==
    {TextSection(<<Line(Halt, FALSE)>>),
     TextSection(<<Line(Halt, TRUE)>>),
     TextSection(<<Line(MakeInstruction("ADD", <<R3, MakeOperand("[R+i]", <<1>>, <<4>>)>>),
                        FALSE)>>),
     TextSection(<<Line(MakeInstruction("NOP", <<>>), FALSE)>>),
     DataSection,
     RawSection("debug_line", <<Num(0), Sym("COMMA"), Id("HALT"), Sym("RBRACKET")>>)}
SectionInputs ==
    {Input(sections, NoDefect) :
        sections \in UNION {[1 .. n -> Sections] : n \in 0 .. MaxSections}}

\* A wrong token in place of one of the tokens of a well-formed text.
WrongTokens ==
    {Sym("RBRACKET"), Sym("LBRACKET"), Sym("COMMA"), Sym("PLUS"), Sym("TIMES"), Sym("DOT"),
     Num(7), Id("R1"), Id("HALT"), Id("RAX"), Str("hi")}
DefectBases ==
    {<<TextSection(<<Line(i, FALSE), Line(Halt, FALSE), Line(Halt, FALSE)>>)>> :
        i \in {Halt,
               MakeInstruction("MOV", <<R3, MakeOperand("[i]", <<>>, <<4>>)>>),
               MakeInstruction("MOV", <<MakeOperand("[R+i]", <<1>>, <<4>>), R3>>),
               MakeInstruction("ADD", <<R3, MakeOperand("[R]", <<1>>, <<>>)>>)}}
DefectInputs ==
    UNION {{Input(b, [at |-> k, tok |-> w]) :
               k \in 1 .. Len(WriteSections(b)), w \in WrongTokens} : b \in DefectBases}

Inputs == OperandInputs \cup SemicolonInputs \cup SectionInputs \cup DefectInputs

\* Parser parser(is): the front-end hands the assembly text to a parser.
ParserOp ==
    /\ parser.status = "none"
    /\ \E input \in Inputs :
          /\ parser' = Parser(WriteInput(input))
          /\ reply' = [op |-> "Parser", input |-> input]
    /\ UNCHANGED <<nvars, line_mapping, top_die, cached_types, interp>>

\* parser.Parse()
ParseOp ==
    /\ parser.status = "new"
    /\ parser' = Parse(parser)
    /\ UNCHANGED <<nvars, svars>>

NextParse ==
    \/ ParserOp
    \/ ParseOp

InitParse == InitNative({Scenario})

SpecParse == InitParse /\ [][NextParse]_vars

-----------------------------------------------------------------------------
(* C1: in every reachable state every breakpoint-table entry with          *)
(* enabled = TRUE has the trap opcode installed in the debuggee's text at  *)
(* its address, and this also held each time Native entered the process's  *)
(* wait.                                                                   *)
C1_EnabledTrapInstalled ==
    /\ TrapsInstalled(text, software_breakpoints)
    /\ wait_ok

\* The debuggee ran into the trap of an enabled breakpoint that saves an
\* ordinary instruction, next to a disabled breakpoint.
C1_Witness ==
    /\ reason = "SoftwareBreakpointHit"
    /\ pstate = "stopped"
    /\ \E a, b \in DOMAIN software_breakpoints :
          /\ software_breakpoints[a].enabled
          /\ software_breakpoints[a].data # "BKPT"
          /\ regs.IP = a
          /\ ~software_breakpoints[b].enabled

-----------------------------------------------------------------------------
\* The current state, as an operation that the front-end issues next finds it.
Now == Begin(FALSE)

Slice(f, address, n) == [i \in 1 .. n |-> f[address + i]]

(* C2, as claimed: after SetBreakpoint(A) and WriteText(A, W),             *)
(* ReadText(A, |W|) returns exactly W, and after a following               *)
(* UnsetBreakpoint(A) the debuggee's own text at A .. A+|W|-1 is exactly W.*)
C2_Original ==
    /\ scn.phase = "written" =>
          LET rd == ReadText(Now, scn.addr, scn.n)
          IN  rd.err = NoErr /\ rd.ret = Slice(ref_text, scn.addr, scn.n)
    /\ scn.phase = "written_unset" =>
          Slice(text, scn.addr, scn.n) = Slice(ref_text, scn.addr, scn.n)

(* C2, amended: after SetBreakpoint(A) and WriteText(A, W),                *)
(* ReadText(A, |W|) returns exactly W, and after a following               *)
(* UnsetBreakpoint(A) the debuggee's own text is W at A and at every       *)
(* address of A .. A+|W|-1 that has no breakpoint-table entry; at an       *)
(* address of the range that still has an entry the text holds the trap    *)
(* opcode and the entry's saved opcode is W's word.                        *)
C2_Transparency ==
    /\ scn.phase = "written" =>
          LET rd == ReadText(Now, scn.addr, scn.n)
          IN  rd.err = NoErr /\ rd.ret = Slice(ref_text, scn.addr, scn.n)
    /\ scn.phase = "written_unset" =>
          /\ scn.addr \notin DOMAIN software_breakpoints
          /\ \A a \in scn.addr .. (scn.addr + scn.n - 1) :
                IF a \in DOMAIN software_breakpoints
                THEN /\ text[a + 1] = GetSoftwareBreakpointOpcode
                     /\ software_breakpoints[a].data = ref_text[a + 1]
                ELSE text[a + 1] = ref_text[a + 1]

\* Set, write of two words over a second breakpoint, unset.
C2_Witness ==
    /\ scn.phase = "written_unset"
    /\ scn.n = 2
    /\ (scn.addr + 1) \in DOMAIN software_breakpoints
    /\ ref_text[scn.addr + 1] # "BKPT"
    /\ text[scn.addr + 1] = ref_text[scn.addr + 1]

(* C7: after any sequence of SetBreakpoint, UnsetBreakpoint,               *)
(* EnableSoftwareBreakpoint, DisableSoftwareBreakpoint and WriteText,      *)
(* ReadText(a, n) equals the reference copy of the text that is changed    *)
(* only by WriteText.                                                      *)
C7_ReadsProgramView ==
    \A a \in 0 .. (TextSize - 1) : \A n \in 1 .. (TextSize - a) :
        LET rd == ReadText(Now, a, n)
        IN  rd.err = NoErr /\ rd.ret = Slice(ref_text, a, n)

(* C8: SetBreakpoint(A), then any sequence of Disable/Enable of A, then    *)
(* UnsetBreakpoint(A) leaves the text at A as it was before SetBreakpoint  *)
(* and no table entry for A; after each Disable the text at A is the       *)
(* original instruction with the entry kept, after each Enable it is the   *)
(* trap opcode.                                                            *)
C8_SetUnsetRoundTrip ==
    /\ scn.phase = "closed" =>
          /\ text[scn.addr + 1] = scn.orig
          /\ scn.addr \notin DOMAIN software_breakpoints
    /\ (scn.phase = "toggled" /\ last.err = NoErr) =>
          /\ scn.addr \in DOMAIN software_breakpoints
          /\ software_breakpoints[scn.addr].data = scn.orig
          /\ last.op = "DisableSoftwareBreakpoint" =>
                /\ text[scn.addr + 1] = scn.orig
                /\ ~software_breakpoints[scn.addr].enabled
          /\ last.op = "EnableSoftwareBreakpoint" =>
                /\ text[scn.addr + 1] = GetSoftwareBreakpointOpcode
                /\ software_breakpoints[scn.addr].enabled

\* Set, disables and enables, unset, of a breakpoint on an ordinary instruction.
C8_Witness ==
    /\ scn.phase = "closed"
    /\ scn.seen = {"DisableSoftwareBreakpoint", "EnableSoftwareBreakpoint"}
    /\ scn.orig # "BKPT"
    /\ last.op = "UnsetBreakpoint"

BpOps == {"SetBreakpoint", "UnsetBreakpoint", "EnableSoftwareBreakpoint",
          "DisableSoftwareBreakpoint"}

\* The operation just done wrote the trap and read back something else.
ReadBackFailed ==
    /\ last'.op \in {"SetBreakpoint", "EnableSoftwareBreakpoint"}
    /\ last'.calls = <<"ReadText", "WriteText", "ReadText">>
    /\ text'[last'.addr + 1] # GetSoftwareBreakpointOpcode

(* C9: SetBreakpoint on an address in the table, Enable, Disable or Unset  *)
(* on an address not in the table, and Set or Enable whose read-back does  *)
(* not return the trap opcode fail with DebuggerError, and a failing       *)
(* breakpoint operation leaves the breakpoint table as it was.             *)
C9_FailuresKeepTable ==
    [][ /\ (last'.op = "SetBreakpoint" /\ last'.addr \in DOMAIN software_breakpoints)
            => last'.err = DebuggerError
        /\ (last'.op \in BpOps \ {"SetBreakpoint"}
              /\ last'.addr \notin DOMAIN software_breakpoints)
            => last'.err = DebuggerError
        /\ ReadBackFailed => last'.err = DebuggerError
        /\ (last'.op \in BpOps /\ last'.err = DebuggerError)
            => software_breakpoints' = software_breakpoints ]_vars

\* An enable whose read-back failed, the entry still disabled.
C9_Witness ==
    /\ last.op = "EnableSoftwareBreakpoint"
    /\ last.err = DebuggerError
    /\ last.calls = <<"ReadText", "WriteText", "ReadText">>
    /\ last.addr \in DOMAIN software_breakpoints
    /\ ~software_breakpoints[last.addr].enabled

(* C10: ReadText(address, n) and WriteText(address, words) fail with       *)
(* DebuggerError, without touching the debuggee's text or any breakpoint's *)
(* saved opcode, whenever the true sum address + length exceeds the text   *)
(* size (also when the sum wraps around), and succeed when it equals the   *)
(* text size.                                                              *)
C10_OutOfRangeFails ==
    \A address \in Addrs : \A words \in WordSeqs :
        LET n == Len(words)
            rd == ReadText(Now, address, n)
            wr == WriteText(Now, address, words)
        IN  /\ address + n > TextSize =>
                /\ rd.err = DebuggerError
                /\ wr.err = DebuggerError
                /\ wr.text = text
                /\ \A a \in DOMAIN software_breakpoints :
                      wr.bps[a].data = software_breakpoints[a].data
            /\ address + n = TextSize =>
                /\ rd.err = NoErr
                /\ wr.err = NoErr

-----------------------------------------------------------------------------
StepOps == {"PerformSingleStep", "DoRawSingleStep"}

AtEnabledBreakpoint ==
    LET ip == regs.IP % Modulus
    IN  ip \in DOMAIN software_breakpoints /\ software_breakpoints[ip].enabled

Has(calls, name) == \E i \in 1 .. Len(calls) : calls[i] = name

\* The calls that tell the process to do something or touch its text: the
\* calls without the reads and writes of the registers.
RegisterCalls == {"FetchRegisters", "SetRegisters", "FetchDebugRegisters"}
Control(calls) == SelectSeq(calls, LAMBDA c : c \notin RegisterCalls)

(* C3: every BreakpointHit event returned by WaitForDebugEvent, from the   *)
(* process or from the cached-event slot, has event.address equal to the   *)
(* debuggee's IP after the call returns.                                   *)
C3_EventAddressAligned ==
    (last.op = "WaitForDebugEvent" /\ last.ev.type = "BreakpointHit")
        => last.ev.address = regs.IP % Modulus

(* C4: when ContinueExecution is called with IP at an enabled breakpoint A *)
(* and WaitForDebugEvent follows, the debuggee executes the instruction    *)
(* saved for A first and exactly once, then the instructions that follow   *)
(* it in the program, in order, up to its stop, and the stop reported is   *)
(* not the breakpoint at A again.                                          *)
C4_BreakpointInvisible ==
    (visit.done /\ visit.A # NoAddr) =>
        /\ visit.exec # <<>>
        /\ visit.exec[1] = [a |-> visit.A, w |-> visit.saved]
        /\ \A i \in 1 .. Len(visit.exec) :
              /\ visit.exec[i].a = visit.A + i - 1
              /\ \/ visit.exec[i].w = ref_text[visit.exec[i].a + 1]
                 \/ /\ i = Len(visit.exec)
                    /\ visit.exec[i].w = GetSoftwareBreakpointOpcode
                    /\ visit.exec[i].a \in DOMAIN software_breakpoints
        /\ last.ev # BreakpointHit(visit.A)

(* C5: ContinueExecution with an empty cached-event slot resumes the       *)
(* process when no enabled breakpoint is at IP; otherwise it steps over    *)
(* the breakpoint and resumes if the step's event is Singlestep, and if it *)
(* is anything else it does not resume, stores the event in the slot, and  *)
(* the next WaitForDebugEvent returns it without calling the process's     *)
(* wait.                                                                   *)
C5_ContinueExecution ==
    [][ /\ (last'.op = "ContinueExecution" /\ last'.err = NoErr
              /\ cached_event = NoEvent) =>
            IF ~AtEnabledBreakpoint
            THEN /\ Control(last'.calls) = <<"ResumeExecution">>
                 /\ pstate' = "resumed"
                 /\ cached_event' = NoEvent
            ELSE /\ Has(last'.calls, "Singlestep")
                 /\ IF last'.ev = Singlestep
                    THEN /\ last'.calls[Len(last'.calls)] = "ResumeExecution"
                         /\ pstate' = "resumed"
                         /\ cached_event' = NoEvent
                    ELSE /\ ~Has(last'.calls, "ResumeExecution")
                         /\ pstate' = "stopped"
                         /\ cached_event' = last'.ev
        /\ (last'.op = "WaitForDebugEvent" /\ cached_event # NoEvent) =>
            /\ last'.ev = cached_event
            /\ ~Has(last'.calls, "Wait")
            /\ cached_event' = NoEvent ]_vars

\* WaitForDebugEvent returned the ExecutionEnd that ContinueExecution cached
\* when it stepped over a breakpoint on HALT.
C5_Witness ==
    /\ last.op = "WaitForDebugEvent"
    /\ last.calls = <<>>
    /\ last.ev = ExecutionEnd
    /\ visit.done
    /\ visit.saved = "HALT"

(* C6: the cached-event slot never holds a Singlestep event, it becomes    *)
(* non-empty or changes its event only in ContinueExecution, whose         *)
(* step-over returned that non-Singlestep event, and it is empty after     *)
(* every return of WaitForDebugEvent.                                      *)
C6_CachedSlot ==
    [][ /\ cached_event'.type # "Singlestep"
        /\ (cached_event' # NoEvent /\ cached_event' # cached_event) =>
              /\ last'.op = "ContinueExecution"
              /\ last'.ev = cached_event'
              /\ Has(last'.calls, "Singlestep")
        /\ last'.op \in StepOps \cup {"WaitForDebugEvent"} =>
              cached_event' = NoEvent ]_vars

\* ContinueExecution left the BreakpointHit of its step-over in the slot.
C6_Witness ==
    /\ cached_event.type = "BreakpointHit"
    /\ last.op = "ContinueExecution"
    /\ last.ev = cached_event
    /\ pstate = "stopped"

-----------------------------------------------------------------------------
WpOps == {"SetWatchpointWrite", "RemoveWatchpoint"}

UsedDebugRegisters == {watchpoints[a].hw_reg : a \in DOMAIN watchpoints}

(* C11: whenever the process has stopped with reason HardwareBreak, the    *)
(* watchpoint table has an entry whose debug-register index is the         *)
(* responsible register (the assertion of MapReasonToEvent holds), and the *)
(* event returned is WatchpointTrigger of that entry's address.            *)
C11_WatchpointTrigger ==
    (reason = "HardwareBreak" /\ last.op \in StepOps \cup {"WaitForDebugEvent"}) =>
        /\ last.err = NoErr
        /\ \E a \in DOMAIN watchpoints :
              /\ watchpoints[a].hw_reg = ArchGetResponsibleRegister(dbg_regs)
              /\ last.ev = WatchpointTrigger(a)

(* C12: no two watchpoints of the table use the same debug-register index, *)
(* every index is below the debug-register count, and the table never has  *)
(* more watchpoints than there are debug registers.                        *)
C12_WatchpointTable ==
    /\ \A a, b \in DOMAIN watchpoints :
          a # b => watchpoints[a].hw_reg # watchpoints[b].hw_reg
    /\ \A a \in DOMAIN watchpoints : watchpoints[a].hw_reg \in DebugRegs
    /\ Cardinality(DOMAIN watchpoints) <= DebugRegistersCount

\* A full table in which a removed watchpoint's register went to a later
\* address, and one more SetWatchpointWrite that failed.
C12_Witness ==
    /\ Cardinality(DOMAIN watchpoints) = DebugRegistersCount
    /\ \E a, b \in DOMAIN watchpoints :
          a < b /\ watchpoints[a].hw_reg > watchpoints[b].hw_reg
    /\ last.op = "SetWatchpointWrite"
    /\ last.err = DebuggerError

(* C13: SetWatchpointWrite on an address that has a watchpoint, or with    *)
(* every debug register used by a watchpoint, and RemoveWatchpoint on an   *)
(* address without a watchpoint fail with DebuggerError; a failing call    *)
(* leaves the watchpoint table and the process's debug registers as they   *)
(* were.                                                                   *)
C13_WatchpointFailures ==
    [][ /\ (last'.op = "SetWatchpointWrite"
              /\ (last'.addr \in DOMAIN watchpoints \/ UsedDebugRegisters = DebugRegs))
            => last'.err = DebuggerError
        /\ (last'.op = "RemoveWatchpoint" /\ last'.addr \notin DOMAIN watchpoints)
            => last'.err = DebuggerError
        /\ (last'.op \in WpOps /\ last'.err = DebuggerError)
            => /\ watchpoints' = watchpoints
               /\ dbg_regs' = dbg_regs
               /\ last'.calls = <<>> ]_vars

\* SetWatchpointWrite on a new address failed for want of a free register.
C13_Witness ==
    /\ last.op = "SetWatchpointWrite"
    /\ last.err = DebuggerError
    /\ last.addr \notin DOMAIN watchpoints
    /\ UsedDebugRegisters = DebugRegs
    /\ dbg_regs.active = DebugRegs

-----------------------------------------------------------------------------
(* C14: SetRegister(name, v) with a name of the process's register map     *)
(* sets that register to v and leaves every other integer register as it   *)
(* was; with any other name it fails with DebuggerError and writes no      *)
(* register.  GetRegister of a name not in the map fails with              *)
(* DebuggerError, of a name in the map it returns the register's value.    *)
(* The same for SetFloatRegister and GetFloatRegister on the float map.    *)
C14_Registers ==
    [][ /\ last'.op = "SetRegister" =>
              IF last'.name \in DOMAIN regs
              THEN /\ last'.err = NoErr
                   /\ regs'[last'.name] = last'.value
                   /\ \A r \in DOMAIN regs \ {last'.name} : regs'[r] = regs[r]
                   /\ DOMAIN regs' = DOMAIN regs
              ELSE /\ last'.err = DebuggerError
                   /\ regs' = regs
                   /\ ~Has(last'.calls, "SetRegisters")
        /\ last'.op = "GetRegister" =>
              IF last'.name \in DOMAIN regs
              THEN last'.err = NoErr /\ last'.ret = regs[last'.name]
              ELSE last'.err = DebuggerError
        /\ last'.op = "SetFloatRegister" =>
              IF last'.name \in DOMAIN fregs
              THEN /\ last'.err = NoErr
                   /\ fregs'[last'.name] = last'.value
                   /\ \A r \in DOMAIN fregs \ {last'.name} : fregs'[r] = fregs[r]
                   /\ DOMAIN fregs' = DOMAIN fregs
              ELSE /\ last'.err = DebuggerError
                   /\ fregs' = fregs
                   /\ ~Has(last'.calls, "SetFloatRegisters")
        /\ last'.op = "GetFloatRegister" =>
              IF last'.name \in DOMAIN fregs
              THEN last'.err = NoErr /\ last'.ret = fregs[last'.name]
              ELSE last'.err = DebuggerError
        /\ last'.op \in {"SetRegister", "GetRegister"} => fregs' = fregs
        /\ last'.op \in {"SetFloatRegister", "GetFloatRegister"} => regs' = regs ]_vars

\* SetRegister wrote R1 while R0 and a float register keep values written
\* before.
C14_Witness ==
    /\ last.op = "SetRegister"
    /\ last.err = NoErr
    /\ last.name = "R1"
    /\ last.value = 2
    /\ regs.R1 = 2
    /\ regs.R0 = 1
    /\ fregs.F1 = 1

-----------------------------------------------------------------------------
\* The variable DIEs below die, each with its path, its name and whether
\* every function or scope DIE around it has a range that contains address.
RECURSIVE VariablesOf(_, _, _, _)
VariablesOf(die, path, address, inside) ==
    IF die.tag = "variable"
    THEN {[path |-> path, name |-> die.name, inside |-> inside]}
    ELSE LET here == IF die.tag \in {"scope", "function"}
                     THEN /\ inside
                          /\ die.begin_addr # NoAddr /\ die.end_addr # NoAddr
                          /\ die.begin_addr <= address /\ address < die.end_addr
                     ELSE inside
         IN  UNION {VariablesOf(die.children[i], Append(path, i), address, here) :
                       i \in 1 .. Len(die.children)}

(* C15: whatever the order of the children of a DIE, GetActiveVariables(A) *)
(* maps each name to a variable DIE of the innermost function or scope     *)
(* whose range contains A: a name is returned exactly when a variable of   *)
(* that name lies only in functions and scopes that contain A, the DIE     *)
(* returned is such a variable, and no such variable of the name lies      *)
(* deeper.                                                                 *)
C15_VariableScoping ==
    reply.op = "GetActiveVariables" =>
        LET visible == {v \in VariablesOf(top_die, <<>>, reply.address, TRUE) : v.inside}
        IN  /\ DOMAIN reply.result = {v.name : v \in visible}
            /\ \A n \in DOMAIN reply.result :
                  \E v \in visible :
                     /\ v.name = n
                     /\ v.path = reply.result[n]
                     /\ \A u \in visible : u.name = n => Len(u.path) <= Len(v.path)

-----------------------------------------------------------------------------
(* C16: the first step of StepIn is PerformSingleStep, which steps over an *)
(* enabled breakpoint at the current IP (the instruction saved for it is   *)
(* the first the debuggee executes and the breakpoint is enabled again     *)
(* afterwards), every further step is a raw single step, and stepping      *)
(* stops at the first event that is not Singlestep or at the first IP with *)
(* a line: on return the event is not Singlestep or the IP maps to a line, *)
(* and no step follows a non-Singlestep event.                             *)
C16_StepIn ==
    [][ (last'.op = "StepIn" /\ last'.err = NoErr) =>
          LET L == last'.steps
              n == Len(L)
              ip == regs.IP % Modulus
          IN  /\ n >= 1
              /\ L[1].kind = "PerformSingleStep"
              /\ \A i \in 2 .. n : L[i].kind = "DoRawSingleStep"
              /\ \A i \in 1 .. (n - 1) :
                    L[i].ev = Singlestep /\ AddrToLine(line_mapping, L[i].ip) = NoLine
              /\ L[n].ev # Singlestep \/ AddrToLine(line_mapping, L[n].ip) # NoLine
              /\ last'.ev = L[n].ev
              /\ regs'.IP % Modulus = L[n].ip
              /\ Len(SelectSeq(last'.calls, LAMBDA c : c = "Singlestep")) = n
              /\ AtEnabledBreakpoint =>
                    /\ last'.xlog[1] = [a |-> ip, w |-> software_breakpoints[ip].data]
                    /\ software_breakpoints'[ip].enabled
                    /\ text'[ip + 1] = GetSoftwareBreakpointOpcode ]_vars

\* StepIn stepped over the breakpoint at its IP and stopped two steps later at
\* an instruction-level breakpoint on an address without a line.
C16_Witness ==
    /\ last.op = "StepIn"
    /\ last.err = NoErr
    /\ Len(last.steps) = 2
    /\ last.xlog[1].a \in DOMAIN software_breakpoints
    /\ last.xlog[1].w # "BKPT"
    /\ last.ev = BreakpointHit(last.xlog[1].a + 1)
    /\ line_mapping.loaded
    /\ AddrToLine(line_mapping, last.ev.address) = NoLine

SourceBpOps == {"SetSourceSoftwareBreakpoint", "UnsetSourceSoftwareBreakpoint",
                "EnableSourceSoftwareBreakpoint", "DisableSourceSoftwareBreakpoint"}

\* The Native operation that the source operation stands for, applied to the
\* current state, the process taking the trap it is given or losing it.
NativeBreakpointOperation(op, address, drop) ==
    CASE op = "SetSourceSoftwareBreakpoint" -> SetBreakpoint(Begin(drop), address)
      [] op = "UnsetSourceSoftwareBreakpoint" -> UnsetBreakpoint(Begin(drop), address)
      [] op = "EnableSourceSoftwareBreakpoint" ->
            EnableSoftwareBreakpoint(Begin(drop), address)
      [] op = "DisableSourceSoftwareBreakpoint" ->
            DisableSoftwareBreakpoint(Begin(drop), address)

(* C18: each of Set/Unset/Enable/DisableSourceSoftwareBreakpoint(line)     *)
(* fails when no line mapping is loaded or the line has no address, with   *)
(* no call to the process and the breakpoint table and the text unchanged; *)
(* otherwise it does what the Native operation of the same kind does on    *)
(* the address the line maps to, and returns that address when the Native  *)
(* operation succeeds.                                                     *)
C18_SourceBreakpoints ==
    [][ last'.op \in SourceBpOps =>
          IF ~line_mapping.loaded \/ last'.line \notin DOMAIN line_mapping.map
          THEN /\ last'.err # NoErr
               /\ last'.calls = <<>>
               /\ software_breakpoints' = software_breakpoints
               /\ text' = text
          ELSE LET address == line_mapping.map[last'.line]
                   Same(r) ==
                       /\ last'.err = r.err
                       /\ last'.calls = r.calls
                       /\ software_breakpoints' = r.bps
                       /\ text' = r.text
                       /\ r.err = NoErr => last'.ret = address
               IN  \E drop \in BOOLEAN :
                      Same(NativeBreakpointOperation(last'.op, address, drop)) ]_vars

\* UnsetSourceSoftwareBreakpoint removed the breakpoint of a line whose
\* address differs from the line number, another line's breakpoint is kept.
C18_Witness ==
    /\ last.op = "UnsetSourceSoftwareBreakpoint"
    /\ last.err = NoErr
    /\ last.ret # last.line
    /\ last.ret = line_mapping.map[last.line]
    /\ last.ret \notin DOMAIN software_breakpoints
    /\ text[last.ret + 1] # "BKPT"
    /\ software_breakpoints # <<>>

-----------------------------------------------------------------------------
(* C19: for every line L of the line mapping, AddrToLine(LineToAddr(L)) is *)
(* defined and at least L; AddrToLine(a) is the greatest line mapped to a, *)
(* and is absent when no line maps to a or no mapping is loaded.           *)
C19_LineMapping ==
    /\ (reply.op = "LineToAddr" /\ line_mapping.loaded
          /\ reply.line \in DOMAIN line_mapping.map) =>
            /\ reply.result = line_mapping.map[reply.line]
            /\ AddrToLine(line_mapping, reply.result) # NoLine
            /\ AddrToLine(line_mapping, reply.result) >= reply.line
    /\ reply.op = "AddrToLine" =>
          LET lines == IF line_mapping.loaded
                       THEN {l \in Lines : l \in DOMAIN line_mapping.map
                                            /\ line_mapping.map[l] = reply.addr}
                       ELSE {}
          IN  IF lines = {} THEN reply.result = NoLine
              ELSE /\ reply.result \in lines
                   /\ \A l \in lines : l <= reply.result

\* LineToAddr of a line whose address a later line shares.
C19_Witness ==
    /\ reply.op = "LineToAddr"
    /\ line_mapping.loaded
    /\ reply.line \in DOMAIN line_mapping.map
    /\ AddrToLine(line_mapping, reply.result) > reply.line

-----------------------------------------------------------------------------
\* The type DIE with the id (NoDie if none), and the ids a type DIE refers to.
TypeOf(id) == FindDIEById(top_die, id)

MemberRefs(d) ==
    IF d.tag = "structured_type" /\ d.members.present
    THEN {d.members.m[i].type_id : i \in 1 .. Len(d.members.m)}
    ELSE {}

\* The structured types that id reaches through members alone, in at most k
\* steps.
RECURSIVE StructsWithin(_, _)
StructsWithin(id, k) ==
    IF k = 0 THEN {}
    ELSE LET next == {r \in MemberRefs(TypeOf(id)) \cap TypeIds :
                         TypeOf(r).tag = "structured_type"}
         IN  next \cup UNION {StructsWithin(r, k - 1) : r \in next}

\* Every cycle of type references passes through a pointer_type DIE: no
\* structured type is a member of itself through structured types alone.
CyclesThroughPointers ==
    \A id \in TypeIds :
        TypeOf(id).tag = "structured_type" => id \notin StructsWithin(id, MaxTypes)

\* The structured type id has one member, whose type is a pointer_type that
\* points back to id.
LinkedList(id) ==
    /\ id \in TypeIds
    /\ TypeOf(id).tag = "structured_type"
    /\ TypeOf(id).members.present
    /\ Len(TypeOf(id).members.m) = 1
    /\ TypeOf(id).members.m[1].type_id \in TypeIds
    /\ TypeOf(TypeOf(id).members.m[1].type_id).tag = "pointer_type"
    /\ TypeOf(TypeOf(id).members.m[1].type_id).type_id = id

IsLinkedListType(type, id) ==
    /\ type.kind = "StructuredType"
    /\ Len(type.members) = 1
    /\ type.members[1].type.kind = "PointerType"
    /\ type.members[1].type.type_idx = id
    /\ type.members[1].type.name = TypeOf(id).name

(* C17, as claimed: ReconstructTypeInformation terminates on every DIE     *)
(* tree whose type cycles pass through a pointer_type DIE, and for a       *)
(* structured type with one member whose type is a pointer_type pointing   *)
(* back to it, it returns a StructuredType with exactly one member, a      *)
(* PointerType with the structured type's id and name.                     *)
C17_Original ==
    reply.op = "ReconstructTypeInformation" =>
        /\ CyclesThroughPointers => ~reply.diverged
        /\ LinkedList(reply.id) => IsLinkedListType(reply.result, reply.id)

(* C17, amended: ReconstructTypeInformation terminates on every DIE tree   *)
(* whose type cycles pass through a pointer_type DIE, and for a structured *)
(* type that has a name and a size attribute and one member whose type is  *)
(* a pointer_type with a size attribute pointing back to it, it returns a  *)
(* StructuredType with exactly one member, a PointerType with the          *)
(* structured type's id and name.                                          *)
C17_TypeReconstruction ==
    reply.op = "ReconstructTypeInformation" =>
        /\ CyclesThroughPointers => ~reply.diverged
        /\ (/\ LinkedList(reply.id)
            /\ TypeOf(reply.id).name # ""
            /\ TypeOf(reply.id).size # NoSize
            /\ TypeOf(TypeOf(reply.id).members.m[1].type_id).size # NoSize)
           => IsLinkedListType(reply.result, reply.id)

\* The linked-list type was reconstructed, the structured type and its
\* pointer are in the cache.
C17_Witness ==
    /\ reply.op = "ReconstructTypeInformation"
    /\ LinkedList(reply.id)
    /\ IsLinkedListType(reply.result, reply.id)
    /\ reply.id \in DOMAIN cached_types
    /\ TypeOf(reply.id).members.m[1].type_id \in DOMAIN cached_types

-----------------------------------------------------------------------------
\* The instruction the interpreter stopped at cannot be carried out on its
\* stack: an operand is missing, or the operands are of unsupported kinds.
CannotInterpret(i) ==
    /\ i.pc <= Len(i.exprs)
    /\ \/ /\ i.exprs[i.pc] = Add
          /\ \/ Len(i.s) < 2
             \/ <<i.s[Len(i.s) - 1].kind, i.s[Len(i.s)].kind>> \notin
                    {<<"imm", "imm">>, <<"imm", "address">>, <<"address", "imm">>}
       \/ /\ i.exprs[i.pc] = Dereference
          /\ \/ Len(i.s) < 1
             \/ i.s[Len(i.s)].kind # "address"

(* C20: an interpretation of a location program of Push, Add and           *)
(* Dereference starts with an empty scratch stack; it fails with           *)
(* InterpretError when an instruction pops from an empty stack or meets    *)
(* operands of unsupported kinds, or when the program ends with a number   *)
(* of operands other than one; otherwise it ends with exactly one operand  *)
(* on the stack, which is the result.                                      *)
C20_StackDiscipline ==
    /\ (interp.status = "running" /\ interp.pc = 1) => interp.s = <<>>
    /\ interp.status = "returned" =>
          /\ interp.pc = Len(interp.exprs) + 1
          /\ Len(interp.s) = 1
          /\ reply.result = interp.s[1]
    /\ interp.status = "failed" =>
          /\ interp.err = InterpretError
          /\ \/ CannotInterpret(interp)
             \/ interp.pc = Len(interp.exprs) + 1 /\ Len(interp.s) # 1
    /\ (interp.status = "running" /\ interp.pc <= Len(interp.exprs)) =>
          (CannotInterpret(interp) <=> InterpretOne(interp, regs.BP).status = "failed")
    /\ (interp.status = "running" /\ interp.pc > Len(interp.exprs)) =>
          (Len(interp.s) # 1 <=> InterpretEnd(interp).status = "failed")

\* base_offset 1; push_imm 1; add gave the address BP + 2, after an
\* interpretation that failed with two operands left.
C20_Witness ==
    /\ interp.status = "returned"
    /\ interp.exprs = <<BaseOffset(1), PushImm(1), Add>>
    /\ reply.result = Address(regs.BP + 2)
    /\ reply.before.status = "failed"
    /\ reply.before.left = 2

-----------------------------------------------------------------------------
(* C21: GetVariableLocation lets no InterpretError escape: when the        *)
(* location program of the variable fails, when no debugging information   *)
(* is loaded, when the variable is not active at the current IP and when   *)
(* it has no location program or an empty one, it returns no location and  *)
(* raises nothing.                                                         *)
C21_LocationUnavailable ==
    reply.op = "GetVariableLocation" =>
        LET var == GetVariableDie(top_die, regs.IP % Modulus, reply.name)
            unavailable ==
                \/ top_die = NoDie
                \/ var = NoDie
                \/ ~var.location_expr.present
                \/ var.location_expr.locs = <<>>
                \/ Interpret(var.location_expr.locs, regs.BP).status = "failed"
        IN  /\ reply.err = NoErr
            /\ unavailable => reply.result = <<>>

-----------------------------------------------------------------------------
(* The grammar of the assembly text, as the kinds of the tokens of each    *)
(* operand form.                                                           *)
FullForms ==
    {<<"ID">>, <<"NUM">>, <<"ID", "PLUS", "NUM">>,
     <<"LBRACKET", "NUM", "RBRACKET">>, <<"LBRACKET", "ID", "RBRACKET">>,
     <<"LBRACKET", "ID", "PLUS", "NUM", "RBRACKET">>,
     <<"LBRACKET", "ID", "PLUS", "ID", "RBRACKET">>,
     <<"LBRACKET", "ID", "PLUS", "ID", "TIMES", "NUM", "RBRACKET">>,
     <<"LBRACKET", "ID", "PLUS", "NUM", "PLUS", "ID", "RBRACKET">>,
     <<"LBRACKET", "ID", "PLUS", "NUM", "PLUS", "ID", "TIMES", "NUM", "RBRACKET">>,
     <<"LBRACKET", "ID", "TIMES", "NUM", "RBRACKET">>}
SimpleMemoryForms ==
    {<<"LBRACKET", "NUM", "RBRACKET">>, <<"LBRACKET", "ID", "RBRACKET">>,
     <<"LBRACKET", "ID", "PLUS", "NUM", "RBRACKET">>}
ImmOrRegisterForms == {<<"ID">>, <<"NUM">>}
OperandForms(name) ==
    CASE name = "MOV" -> {a \o <<"COMMA">> \o b : a \in FullForms, b \in FullForms}
      [] name = "LEA" -> {<<"ID", "COMMA">> \o b : b \in FullForms}
      [] name \in ArithmeticMnemonics ->
            {<<"ID", "COMMA">> \o b : b \in ImmOrRegisterForms \cup SimpleMemoryForms}
      [] name = "LOOP" -> {<<"ID", "COMMA">> \o b : b \in ImmOrRegisterForms}
      [] name \in RegisterMnemonics -> {<<"ID">>}
      [] name \in ImmOrRegisterMnemonics -> ImmOrRegisterForms
      [] name \in ConditionalJumps -> ImmOrRegisterForms \cup SimpleMemoryForms
      [] name \in NullaryMnemonics -> {<<>>}
      [] OTHER -> {}
ValidRegisters == {"BP", "SP", "IP", "R0", "R1", "R2", "R3"}

Matches(toks, j, form) ==
    /\ j + Len(form) - 1 <= Len(toks)
    /\ \A k \in 1 .. Len(form) :
          /\ toks[j + k - 1].kind = form[k]
          /\ form[k] = "ID" => toks[j + k - 1].id \in ValidRegisters

\* Where an instruction that starts at token j may end: after the optional
\* address, the mnemonic, the operands and the optional ';'.
InstructionEnds(toks, j) ==
    LET starts == {j} \cup (IF toks[j].kind = "NUM" THEN {j + 1} ELSE {})
        plain == UNION {{s + 1 + Len(f) : f \in {g \in OperandForms(toks[s].id) :
                                                    Matches(toks, s + 1, g)}} :
                           s \in {x \in starts : x <= Len(toks) /\ toks[x].kind = "ID"}}
    IN  plain \cup {e + 1 : e \in {x \in plain : x <= Len(toks) /\ toks[x].kind = "SEMICOLON"}}

RECURSIVE WellFormedSections(_, _)
RECURSIVE WellFormedBody(_, _, _)
WellFormedBody(toks, name, j) ==
    \/ j > Len(toks)
    \/ toks[j].kind = "DOT" /\ WellFormedSections(toks, j)
    \/ /\ toks[j].kind # "DOT"
       /\ CASE name = "text" ->
                  \E e \in InstructionEnds(toks, j) : WellFormedBody(toks, name, e)
            [] name = "data" ->
                  toks[j].kind \in {"NUM", "STRING"} /\ WellFormedBody(toks, name, j + 1)
            [] OTHER -> WellFormedBody(toks, name, j + 1)

WellFormedSections(toks, j) ==
    \/ j > Len(toks)
    \/ /\ toks[j].kind = "DOT"
       /\ j + 1 <= Len(toks)
       /\ toks[j + 1].kind = "ID"
       /\ WellFormedBody(toks, toks[j + 1].id, j + 2)

WellFormed(toks) == WellFormedSections(toks, 1)

\* What an input without a wrong token means: the instructions of its text
\* sections and the words of its data sections, in order.
RECURSIVE InstructionsOf(_)
InstructionsOf(sections) ==
    IF sections = <<>> THEN <<>>
    ELSE [k \in 1 .. Len(Head(sections).lines) |-> Head(sections).lines[k].ins] \o
         InstructionsOf(Tail(sections))
RECURSIVE WordsOf(_)
WordsOf(toks) ==
    IF toks = <<>> THEN <<>>
    ELSE (IF Head(toks).kind = "STRING" THEN StringChars[Head(toks).id]
          ELSE <<Head(toks).num>>) \o WordsOf(Tail(toks))
RECURSIVE DataOf(_)
DataOf(sections) ==
    IF sections = <<>> THEN <<>>
    ELSE (IF Head(sections).name = "data" THEN WordsOf(Head(sections).toks) ELSE <<>>) \o
         DataOf(Tail(sections))
Parsed == parser.status \in {"returned", "failed"}
ParsedAsWritten ==
    /\ parser.status = "returned"
    /\ parser.program = InstructionsOf(reply.input.sections)
    /\ parser.data = DataOf(reply.input.sections)

(* C22: Parse fails on every deviation from the grammar: whenever it       *)
(* returns a program, the tokens it was given are a sequence of            *)
(* well-formed sections, so no program is returned that leaves out the     *)
(* rest of a malformed input.                                              *)
C22_ParseErrors ==
    parser.status = "returned" => WellFormed(parser.toks)

(* C23: a text section written with a ';' after each instruction, after    *)
(* none or after some parses to the list of all its instructions in order, *)
(* and the section that follows it is parsed as well.                      *)
C23_TrailingSemicolon ==
    (Parsed /\ reply.input \in SemicolonInputs) => ParsedAsWritten

(* C24: MOV with each operand form as its destination and as its source    *)
(* parses to the MOV of that operand, and the instruction after it is      *)
(* parsed as well.                                                         *)
C24_MovOperands ==
    (Parsed /\ reply.input \in OperandInputs
        /\ reply.input.sections[1].lines[1].ins \in MovInstructions)
    => ParsedAsWritten

(* C25: an arithmetic, logic or compare instruction and a conditional jump *)
(* with an operand [imm], [reg] or [reg+imm] parses to that instruction,   *)
(* and the instruction after it is parsed as well.                         *)
C25_SimpleMemory ==
    (Parsed /\ reply.input \in OperandInputs
        /\ reply.input.sections[1].lines[1].ins \in SimpleMemoryInstructions)
    => ParsedAsWritten

(* C26: every sequence of zero or more text, data and unknown sections      *)
(* parses to the instructions and the data of its text and data sections:  *)
(* an input with no section parses to the program with no instructions and *)
(* no data, and an unknown section is skipped up to the next '.' or the    *)
(* end of the input while the text and data sections before and after it   *)
(* are parsed into the program.                                            *)
C26_Sections ==
    (Parsed /\ reply.input \in SectionInputs) => ParsedAsWritten

-----------------------------------------------------------------------------
\* What one hardware step of the stopped debuggee gives when the instruction at
\* ip is the one saved for the breakpoint there: the stop and its event.
SteppedOver(ip) ==
    LET Event(q) == MapReasonToEvent(q, q.reason)
    IN  Event(Execute([Now EXCEPT !.text[ip + 1] = software_breakpoints[ip].data]))

(* C27: PerformSingleStep with an enabled breakpoint at the current IP      *)
(* restores the saved instruction, issues exactly one hardware single step  *)
(* and one wait while the trap is removed, installs the trap again and      *)
(* returns the event of that step; on return the breakpoint is enabled with  *)
(* the trap opcode in the text, and every other breakpoint is as it was.    *)
C27_StepOverBreakpoint ==
    [][ (last'.op = "PerformSingleStep" /\ last'.err = NoErr /\ AtEnabledBreakpoint) =>
          LET ip == regs.IP % Modulus
          IN  /\ Control(last'.calls) = <<"WriteText", "Singlestep", "Wait",
                                          "ReadText", "WriteText", "ReadText">>
              /\ last'.ev = SteppedOver(ip).ev
              /\ reason' = SteppedOver(ip).reason
              /\ regs' = IF last'.ev.type = "BreakpointHit"
                         THEN [SteppedOver(ip).regs EXCEPT !.IP = @ - 1]
                         ELSE SteppedOver(ip).regs
              /\ DOMAIN software_breakpoints' = DOMAIN software_breakpoints
              /\ software_breakpoints'[ip].enabled
              /\ text'[ip + 1] = GetSoftwareBreakpointOpcode
              /\ \A a \in DOMAIN software_breakpoints \ {ip} :
                    software_breakpoints'[a] = software_breakpoints[a] ]_vars

(* C28: a successful SetWatchpointWrite gives the watchpoint the lowest     *)
(* debug-register index that no watchpoint of the table used, writes the    *)
(* watched address to that register and activates it in the process; after  *)
(* a successful RemoveWatchpoint the index of the removed watchpoint is     *)
(* used by no watchpoint, so the next SetWatchpointWrite takes it when it   *)
(* is the lowest free one.                                                  *)
C28_LowestFreeRegister ==
    [][ /\ (last'.op = "SetWatchpointWrite" /\ last'.err = NoErr) =>
            LET free == DebugRegs \ UsedDebugRegisters
                idx == watchpoints'[last'.addr].hw_reg
            IN  /\ idx \in free
                /\ \A j \in free : idx <= j
                /\ dbg_regs'.addr[idx] = last'.addr
                /\ idx \in dbg_regs'.active
                /\ \A a \in DOMAIN watchpoints : watchpoints'[a] = watchpoints[a]
        /\ (last'.op = "RemoveWatchpoint" /\ last'.err = NoErr) =>
            /\ \A a \in DOMAIN watchpoints' :
                  watchpoints'[a].hw_reg # watchpoints[last'.addr].hw_reg
            /\ GetFreeDebugRegister(watchpoints') <= watchpoints[last'.addr].hw_reg
            /\ GetFreeDebugRegister(watchpoints') # NoReg ]_vars

\* Register 0, freed by a removal while register 1 stayed in use, went to the
\* watchpoint set last.
C28_Witness ==
    /\ last.op = "SetWatchpointWrite"
    /\ last.err = NoErr
    /\ watchpoints[last.addr].hw_reg = 0
    /\ dbg_regs.addr[0] = last.addr
    /\ 0 \in dbg_regs.active
    /\ \E b \in DOMAIN watchpoints : watchpoints[b].hw_reg = 1

\* The top-level function DIEs that have a name and a range holding the address.
FunctionsAt(address) ==
    {i \in 1 .. Len(top_die.children) :
        LET die == top_die.children[i]
        IN  /\ die.tag = "function" /\ die.name # ""
            /\ die.begin_addr # NoAddr /\ die.end_addr # NoAddr
            /\ die.begin_addr <= address /\ address < die.end_addr}

\* The top-level function DIEs of the name that have both addresses.
FunctionsNamed(name) ==
    {i \in 1 .. Len(top_die.children) :
        LET die == top_die.children[i]
        IN  /\ die.tag = "function" /\ die.name = name
            /\ die.begin_addr # NoAddr /\ die.end_addr # NoAddr}

\* GetFunctionNameByAddress returns the name of a top-level function DIE with
\* begin_addr <= a < end_addr, and nothing when there is none with a name.
NameByAddress ==
    reply.op = "GetFunctionNameByAddress" =>
        IF FunctionsAt(reply.address) = {} THEN reply.result = <<>>
        ELSE \E i \in FunctionsAt(reply.address) :
                reply.result = <<top_die.children[i].name>>

(* C29: GetFunctionNameByAddress(a) returns the name of a top-level         *)
(* function DIE with begin_addr <= a < end_addr and nothing when no         *)
(* top-level function with a name and a range holds a;                     *)
(* GetFunctionAddrByName(n) returns the begin and end address of a          *)
(* top-level function DIE named n whenever one of that name has both.       *)
C29_FunctionLookup ==
    /\ NameByAddress
    /\ reply.op = "GetFunctionAddrByName" =>
          (FunctionsNamed(reply.name) # {} =>
              \E i \in FunctionsNamed(reply.name) :
                  reply.result = <<<<top_die.children[i].begin_addr,
                                     top_die.children[i].end_addr>>>>)

\* SetBreakpoint(A); DisableSoftwareBreakpoint(A); WriteText(A, <<W>>);
\* EnableSoftwareBreakpoint(A); UnsetBreakpoint(A), from the current state on,
\* each operation issued if the one before it did not fail.
SetDisableWriteEnableUnset(A, W) ==
    LET Then(r, Op(_)) == IF r.err # NoErr THEN r ELSE Op(r)
        Disable(r) == DisableSoftwareBreakpoint(r, A)
        Write(r) == WriteText(r, A, <<W>>)
        Enable(r) == EnableSoftwareBreakpoint(r, A)
        Unset(r) == UnsetBreakpoint(r, A)
    IN  Then(Then(Then(Then(SetBreakpoint(Now, A), Disable), Write), Enable), Unset)

(* C30: Native.WriteText stores the given word in the debuggee's text at    *)
(* every written address that has no enabled breakpoint, an address with a  *)
(* disabled breakpoint included, and installs no trap opcode there; and     *)
(* SetBreakpoint(A); DisableSoftwareBreakpoint(A); WriteText(A, W);         *)
(* EnableSoftwareBreakpoint(A); UnsetBreakpoint(A) leaves W in the text at  *)
(* A.                                                                       *)
C30_WriteAtDisabled ==
    [][ /\ (last'.op = "WriteText" /\ last'.err = NoErr) =>
            \A a \in last'.addr .. (last'.addr + last'.n - 1) :
                (a \notin DOMAIN software_breakpoints
                    \/ ~software_breakpoints[a].enabled)
                => text'[a + 1] = ref_text'[a + 1]
        /\ \A A \in (0 .. (TextSize - 1)) \ DOMAIN software_breakpoints :
              \A W \in WriteWords :
                  LET r == SetDisableWriteEnableUnset(A, W)
                  IN  r.err = NoErr => r.text[A + 1] = W ]_vars

(* C31: after any sequence of SetWatchpointWrite and RemoveWatchpoint a      *)
(* debug register is active in the process if and only if a watchpoint of   *)
(* the table uses its index, and an active register holds that             *)
(* watchpoint's address; so the register of a removed watchpoint is         *)
(* deactivated in the process, and the debuggee stops with HardwareBreak    *)
(* only at a write to an address that has a watchpoint.                     *)
C31_RegistersMatchTable ==
    /\ \A i \in DebugRegs :
          i \in dbg_regs.active <=> i \in UsedDebugRegisters
    /\ \A a \in DOMAIN watchpoints :
          dbg_regs.addr[watchpoints[a].hw_reg] = a
    /\ (reason = "HardwareBreak" /\ last.op \in StepOps \cup {"WaitForDebugEvent"}) =>
          \E a \in DOMAIN watchpoints :
              watchpoints[a].hw_reg = dbg_regs.hit /\ dbg_regs.addr[dbg_regs.hit] = a

\* What one hardware step of the stopped debuggee gives on the text as it is.
RawStepped ==
    LET Event(q) == MapReasonToEvent(q, q.reason)
    IN  Event(Execute(Now))

CountCalls(calls, name) == Len(SelectSeq(calls, LAMBDA c : c = name))

(* C32: DoRawSingleStep and PerformSingleStep return the event of the       *)
(* hardware step that the call issued, obtained by one wait on the process  *)
(* after that step: in no reachable state, one with an event left in the    *)
(* cached-event slot by ContinueExecution included, does a step operation   *)
(* issue the step and return an event without waiting for its stop.         *)
C32_StepEventFresh ==
    [][ (last'.op \in StepOps /\ last'.err = NoErr) =>
          /\ CountCalls(last'.calls, "Singlestep") = 1
          /\ CountCalls(last'.calls, "Wait") = 1
          /\ \E i, j \in 1 .. Len(last'.calls) :
                i < j /\ last'.calls[i] = "Singlestep" /\ last'.calls[j] = "Wait"
          /\ last'.ev = IF last'.op = "PerformSingleStep" /\ AtEnabledBreakpoint
                        THEN SteppedOver(regs.IP % Modulus).ev
                        ELSE RawStepped.ev ]_vars

====
